---- MODULE Spec2Model ----
\* A model of docman's document model and health-check engine
\* (crates dm-meta, dm-scan, dm-checks).  Strings that the code inspects
\* character by character (paths, links, statuses) are sequences of
\* one-character strings; Option<T> is a sequence of length 0 (None) or 1
\* (Some(v)); dates are day numbers.
EXTENDS Integers, Sequences, FiniteSets, TLC

VARIABLES
    tree,      \* the DocTree handed to a health check: [docs, root]
    disk,      \* the paths that exist on the file system
    today,     \* the reference date of the run
    issues,    \* the Vec<CheckIssue> / Vec<ValidationIssue> last returned
    doc,       \* the Document handed to validate_frontmatter
    root,      \* a scan root (infer_category on root.join(rel))
    rel,       \* a root-relative path
    catAbs,    \* Option<Category>: infer_category(root.join(rel))
    catRel,    \* Option<Category>: infer_category(rel)
    pc,        \* the operation that has run ("init" before any)
    files,     \* the file system under the scan root: path -> file text
    yaml_text, \* the text serde_yaml::to_string last returned
    extracted, \* Option<(yaml, body)>: what extract_frontmatter returned
    parsed,    \* Option<Result<Document, MetaError>> of parse_document
    resolved,  \* Option<String>: what resolve_status returned
    report,    \* the CheckReport last built by the aggregator
    text,      \* the lines of the String format_report last returned
    stdout,    \* the lines printed so far
    exit_code  \* Option<i32>: the exit code once the process has ended

parseVars == <<files, yaml_text, extracted, parsed, resolved>>

reportVars == <<report, text, stdout, exit_code>>

vars == <<tree, disk, today, issues, doc, root, rel, catAbs, catRel, pc,
          parseVars, reportVars>>

----------------------------------------------------------------------------
\* Option<T>

None == <<>>
Some(v) == <<v>>
IsSome(o) == Len(o) = 1
IsNone(o) == Len(o) = 0
Unwrap(o) == o[1]

----------------------------------------------------------------------------
\* str primitives of the standard library, on sequences of characters

StartsWith(s, p) == Len(p) <= Len(s) /\ SubSeq(s, 1, Len(p)) = p

EndsWith(s, p) == Len(p) <= Len(s) /\ SubSeq(s, Len(s) - Len(p) + 1, Len(s)) = p

StrContains(s, p) ==
    \E i \in 0..(Len(s) - Len(p)) : SubSeq(s, i + 1, i + Len(p)) = p

\* str::strip_prefix: Some(rest) when s starts with p, None otherwise.
StripPrefix(s, p) ==
    IF StartsWith(s, p) THEN Some(SubSeq(s, Len(p) + 1, Len(s))) ELSE None

\* str::replace(from, to) for single characters.
ReplaceChar(s, from, to) == [i \in 1..Len(s) |-> IF s[i] = from THEN to ELSE s[i]]

UpperChars == <<"A","B","C","D","E","F","G","H","I","J","K","L","M",
                "N","O","P","Q","R","S","T","U","V","W","X","Y","Z">>
LowerChars == <<"a","b","c","d","e","f","g","h","i","j","k","l","m",
                "n","o","p","q","r","s","t","u","v","w","x","y","z">>

ToLowerChar(c) ==
    IF \E i \in 1..Len(UpperChars) : UpperChars[i] = c
    THEN LowerChars[CHOOSE i \in 1..Len(UpperChars) : UpperChars[i] = c]
    ELSE c

\* str::to_lowercase
ToLowercase(s) == [i \in 1..Len(s) |-> ToLowerChar(s[i])]

----------------------------------------------------------------------------
\* Literals

SLASH == <<"/">>
BACKSLASH == <<"\\">>

active == <<"a","c","t","i","v","e">>
design == <<"d","e","s","i","g","n">>
research == <<"r","e","s","e","a","r","c","h">>
archive == <<"a","r","c","h","i","v","e">>
a_md == <<"a",".","m","d">>
srv == <<"s","r","v">>
docs_dir == <<"d","o","c","s">>
x_dir == <<"x">>
n_md == <<"n",".","m","d">>
n_txt == <<"n",".","t","x","t">>
d_md == <<"d",".","m","d">>
README_md == <<"R","E","A","D","M","E",".","m","d">>
s_deprecated == <<"d","e","p","r","e","c","a","t","e","d">>
s_draft == <<"d","r","a","f","t">>
s_proposed == <<"p","r","o","p","o","s","e","d">>
s_accepted == <<"a","c","c","e","p","t","e","d">>
s_Accepted == <<"A","c","c","e","p","t","e","d">>
s_implemented == <<"i","m","p","l","e","m","e","n","t","e","d">>
s_rejected == <<"r","e","j","e","c","t","e","d">>
s_published == <<"p","u","b","l","i","s","h","e","d">>
s_obsolete == <<"o","b","s","o","l","e","t","e">>
s_archived == <<"a","r","c","h","i","v","e","d">>
s_bogus == <<"b","o","g","u","s">>
s_No_Frontmatter == <<"N","o"," ","F","r","o","n","t","m","a","t","t","e","r">>
s_Draft == <<"D","r","a","f","t">>
s_PROPOSED == <<"P","R","O","P","O","S","E","D">>

Categories == {"Active", "Design", "Research", "Archive"}

\* impl Display for Category
CategoryName(c) ==
    CASE c = "Active" -> active
      [] c = "Design" -> design
      [] c = "Research" -> research
      [] c = "Archive" -> archive

----------------------------------------------------------------------------
\* Paths

\* PathBuf::join / PathBuf::push on a Unix target: an absolute argument
\* replaces the base, otherwise a separator is added unless the base is
\* empty or already ends with one.
PathJoin(base, p) ==
    IF StartsWith(p, SLASH) THEN p
    ELSE IF base = <<>> \/ EndsWith(base, SLASH) THEN base \o p
    ELSE base \o SLASH \o p

\* Path::strip_prefix(base).unwrap_or(path), as used on scanned paths: the
\* path with the scan root and the separator after it removed.
StripRoot(p, base) ==
    IF base = <<>> THEN p
    ELSE IF p = base THEN <<>>
    ELSE IF EndsWith(base, SLASH) /\ StartsWith(p, base)
         THEN SubSeq(p, Len(base) + 1, Len(p))
    ELSE IF StartsWith(p, base \o SLASH)
         THEN SubSeq(p, Len(base) + 2, Len(p))
    ELSE p

\* infer_category with the priority of the first two tests exchanged.
infer_category_design_first(path) ==
    LET norm == ReplaceChar(path, "\\", "/") IN
    IF StrContains(norm, SLASH \o design \o SLASH) \/ StartsWith(norm, design \o SLASH)
        THEN "Design"
    ELSE IF StrContains(norm, SLASH \o active \o SLASH) \/ StartsWith(norm, active \o SLASH)
        THEN "Active"
    ELSE IF StrContains(norm, SLASH \o research \o SLASH) \/ StartsWith(norm, research \o SLASH)
        THEN "Research"
    ELSE IF StrContains(norm, SLASH \o archive \o SLASH) \/ StartsWith(norm, archive \o SLASH)
        THEN "Archive"
    ELSE "Active"

infer_category(path) ==
    LET norm == ReplaceChar(path, "\\", "/") IN
    IF StrContains(norm, SLASH \o active \o SLASH) \/ StartsWith(norm, active \o SLASH)
        THEN "Active"
    ELSE IF StrContains(norm, SLASH \o design \o SLASH) \/ StartsWith(norm, design \o SLASH)
        THEN "Design"
    ELSE IF StrContains(norm, SLASH \o research \o SLASH) \/ StartsWith(norm, research \o SLASH)
        THEN "Research"
    ELSE IF StrContains(norm, SLASH \o archive \o SLASH) \/ StartsWith(norm, archive \o SLASH)
        THEN "Archive"
    ELSE "Active"

----------------------------------------------------------------------------
\* Documents

\* RawFrontmatter::default(): every field absent.
DefaultFrontmatter ==
    [title |-> None, status |-> None, created |-> None, last_updated |-> None,
     author |-> None, next_review |-> None, tags |-> None, related_docs |-> None,
     supersedes |-> None, superseded_by |-> None, doc_id |-> None,
     decision_date |-> None, implementation_pr |-> None, doc_type |-> None]

\* The Document parse_document builds: the category is inferred from the
\* path the file was read from.
\* A Document whose category follows the declared `type` when there is one.
Document_category_from_type(path, fm, body) ==
    [path |-> path, frontmatter |-> fm,
     category |-> IF fm.doc_type = Some(design) THEN "Design"
                  ELSE IF fm.doc_type = Some(research) THEN "Research"
                  ELSE infer_category(path),
     body |-> body]

Document(path, fm, body) ==
    [path |-> path, frontmatter |-> fm, category |-> infer_category(path), body |-> body]

\* DocTree::by_category
RECURSIVE by_category(_, _)
by_category(docs, category) ==
    IF docs = <<>> THEN <<>>
    ELSE (IF Head(docs).category = category THEN <<Head(docs)>> ELSE <<>>)
         \o by_category(Tail(docs), category)

\* format!(fmt, args..): the format string and its interpolated values.
Msg(fmt, args) == [fmt |-> fmt, args |-> args]

CheckIssue(path, check_type, severity, message) ==
    [path |-> path, check_type |-> check_type, severity |-> severity, message |-> message]

ValidationIssue(path, severity, message) ==
    [path |-> path, severity |-> severity, message |-> message]

----------------------------------------------------------------------------
\* Staleness detection

StaleDays == 180

\* check_stale's first test with >= in place of >.
ReviewOverdue_inclusive(d, t) ==
    IF IsSome(d.frontmatter.next_review) /\ t >= Unwrap(d.frontmatter.next_review)
    THEN <<CheckIssue(d.path, "Stale", "Warning",
                      Msg("Review overdue since {}", <<Unwrap(d.frontmatter.next_review)>>))>>
    ELSE <<>>

\* Review overdue
ReviewOverdue(d, t) ==
    IF IsSome(d.frontmatter.next_review) /\ t > Unwrap(d.frontmatter.next_review)
    THEN <<CheckIssue(d.path, "Stale", "Warning",
                      Msg("Review overdue since {}", <<Unwrap(d.frontmatter.next_review)>>))>>
    ELSE <<>>

\* check_stale's second test with >= in place of >.
NotUpdated_inclusive(d, t) ==
    IF IsSome(d.frontmatter.last_updated)
       /\ t - Unwrap(d.frontmatter.last_updated) >= StaleDays
    THEN <<CheckIssue(d.path, "Stale", "Warning",
                      Msg("Not updated in over 6 months (last: {})",
                          <<Unwrap(d.frontmatter.last_updated)>>))>>
    ELSE <<>>

\* Not updated in >180 days
NotUpdated(d, t) ==
    IF IsSome(d.frontmatter.last_updated)
       /\ t - Unwrap(d.frontmatter.last_updated) > StaleDays
    THEN <<CheckIssue(d.path, "Stale", "Warning",
                      Msg("Not updated in over 6 months (last: {})",
                          <<Unwrap(d.frontmatter.last_updated)>>))>>
    ELSE <<>>

\* check_stale's third test without the look at next_review.
NoReviewDate_any_active(d) ==
    IF d.category = "Active"
    THEN <<CheckIssue(d.path, "Stale", "Info", Msg("No review date set", <<>>))>>
    ELSE <<>>

\* Active docs without next_review
NoReviewDate(d) ==
    IF d.category = "Active" /\ IsNone(d.frontmatter.next_review)
    THEN <<CheckIssue(d.path, "Stale", "Info", Msg("No review date set", <<>>))>>
    ELSE <<>>

RECURSIVE check_stale_from(_, _)
check_stale_from(docs, t) ==
    IF docs = <<>> THEN <<>>
    ELSE ReviewOverdue(Head(docs), t) \o NotUpdated(Head(docs), t) \o NoReviewDate(Head(docs))
         \o check_stale_from(Tail(docs), t)

check_stale(tr, t) == check_stale_from(tr.docs, t)

----------------------------------------------------------------------------
\* Orphan detection

ReviewDays == 90

\* doc.frontmatter.status.as_deref().unwrap_or("").to_lowercase()
StatusLower(d) ==
    ToLowercase(IF IsSome(d.frontmatter.status) THEN Unwrap(d.frontmatter.status) ELSE <<>>)

\* The accepted-without-PR test comparing the status as declared, without
\* lower-casing it.
AcceptedNoPR_exact(d) ==
    IF (IF IsSome(d.frontmatter.status) THEN Unwrap(d.frontmatter.status) ELSE <<>>) = s_accepted
       /\ IsNone(d.frontmatter.implementation_pr)
    THEN <<CheckIssue(d.path, "Orphan", "Warning",
                      Msg("Accepted design doc has no implementation PR", <<>>))>>
    ELSE <<>>

\* Missing implementation PR
AcceptedNoPR(d) ==
    IF StatusLower(d) = s_accepted /\ IsNone(d.frontmatter.implementation_pr)
    THEN <<CheckIssue(d.path, "Orphan", "Warning",
                      Msg("Accepted design doc has no implementation PR", <<>>))>>
    ELSE <<>>

\* The acceptance-age test with >= in place of >.
AcceptedOverdue_inclusive(d, t) ==
    IF /\ StatusLower(d) = s_accepted
       /\ IsSome(d.frontmatter.decision_date)
       /\ t - Unwrap(d.frontmatter.decision_date) >= ReviewDays
    THEN <<CheckIssue(d.path, "Orphan", "Warning",
                      Msg("Accepted >90 days without implementation", <<>>))>>
    ELSE <<>>

\* Accepted >90 days without implementation
AcceptedOverdue(d, t) ==
    IF /\ StatusLower(d) = s_accepted
       /\ IsSome(d.frontmatter.decision_date)
       /\ t - Unwrap(d.frontmatter.decision_date) > ReviewDays
    THEN <<CheckIssue(d.path, "Orphan", "Warning",
                      Msg("Accepted >90 days without implementation", <<>>))>>
    ELSE <<>>

\* active.frontmatter.related_docs.as_deref().unwrap_or(&[])
RelatedDocs(d) ==
    IF IsSome(d.frontmatter.related_docs) THEN Unwrap(d.frontmatter.related_docs) ELSE <<>>

\* The reference test looking at the related_docs of every document.
is_referenced_any_category(d, docs) ==
    \E a \in 1..Len(docs) :
        \E r \in 1..Len(RelatedDocs(docs[a])) :
            LET rd == RelatedDocs(docs[a])[r]
            IN StrContains(d.path, rd) \/ StrContains(rd, d.path)

is_referenced(d, docs) ==
    LET active_docs == by_category(docs, "Active") IN
    \E a \in 1..Len(active_docs) :
        \E r \in 1..Len(RelatedDocs(active_docs[a])) :
            LET rd == RelatedDocs(active_docs[a])[r]
            IN StrContains(d.path, rd) \/ StrContains(rd, d.path)

\* Implemented design doc not referenced by any active document
ImplementedUnreferenced(d, docs) ==
    IF StatusLower(d) = s_implemented /\ ~ is_referenced(d, docs)
    THEN <<CheckIssue(d.path, "Orphan", "Info",
                      Msg("Implemented design doc not referenced by any active doc", <<>>))>>
    ELSE <<>>

RECURSIVE check_orphans_from(_, _, _)
check_orphans_from(design_docs, docs, t) ==
    IF design_docs = <<>> THEN <<>>
    ELSE AcceptedNoPR(Head(design_docs)) \o AcceptedOverdue(Head(design_docs), t)
         \o ImplementedUnreferenced(Head(design_docs), docs)
         \o check_orphans_from(Tail(design_docs), docs, t)

check_orphans_with_date(tr, t) ==
    check_orphans_from(by_category(tr.docs, "Design"), tr.docs, t)

----------------------------------------------------------------------------
\* Frontmatter validation

VALID_ACTIVE_STATUSES == {active, s_deprecated, s_draft}
VALID_DESIGN_STATUSES == {s_proposed, s_accepted, s_implemented, s_rejected}
VALID_RESEARCH_STATUSES == {s_draft, s_published, s_obsolete}

\* The sentinel test without the tags field.
all_none_without_tags(d) ==
    /\ IsNone(d.frontmatter.title)
    /\ IsNone(d.frontmatter.author)
    /\ IsNone(d.frontmatter.status)
    /\ IsNone(d.frontmatter.created)

all_none(d) ==
    /\ IsNone(d.frontmatter.title)
    /\ IsNone(d.frontmatter.author)
    /\ IsNone(d.frontmatter.status)
    /\ IsNone(d.frontmatter.created)
    /\ IsNone(d.frontmatter.tags)

\* No frontmatter at all
NoFrontmatter(d) == all_none(d) /\ d.body # <<>>

\* Missing title
MissingTitle(d) ==
    IF IsNone(d.frontmatter.title)
    THEN <<ValidationIssue(d.path, "Error", Msg("missing title", <<>>))>>
    ELSE <<>>

\* The author rule reading the title field.
MissingAuthor_wrong_field(d) ==
    IF IsNone(d.frontmatter.title)
    THEN <<ValidationIssue(d.path, "Warning", Msg("missing author", <<>>))>>
    ELSE <<>>

\* Missing author
MissingAuthor(d) ==
    IF IsNone(d.frontmatter.author)
    THEN <<ValidationIssue(d.path, "Warning", Msg("missing author", <<>>))>>
    ELSE <<>>

\* Missing created date
MissingCreated(d) ==
    IF IsNone(d.frontmatter.created)
    THEN <<ValidationIssue(d.path, "Warning", Msg("missing created date", <<>>))>>
    ELSE <<>>

\* The doc_id rule applied whatever the category is.
DesignMissingDocId_any_category(d) ==
    IF IsNone(d.frontmatter.doc_id)
    THEN <<ValidationIssue(d.path, "Error", Msg("design doc missing doc_id", <<>>))>>
    ELSE <<>>

\* Design docs must have doc_id
DesignMissingDocId(d) ==
    IF d.category = "Design" /\ IsNone(d.frontmatter.doc_id)
    THEN <<ValidationIssue(d.path, "Error", Msg("design doc missing doc_id", <<>>))>>
    ELSE <<>>

\* Active docs should have next_review
ActiveMissingNextReview(d) ==
    IF d.category = "Active" /\ IsNone(d.frontmatter.next_review)
    THEN <<ValidationIssue(d.path, "Warning", Msg("active doc missing next_review", <<>>))>>
    ELSE <<>>

\* The status test comparing the status as declared, without lower-casing.
StatusValid_exact(status, category) ==
    CASE category = "Active" -> status \in VALID_ACTIVE_STATUSES
      [] category = "Design" -> status \in VALID_DESIGN_STATUSES
      [] category = "Research" -> status \in VALID_RESEARCH_STATUSES
      [] category = "Archive" -> TRUE

StatusValid(status, category) ==
    LET s == ToLowercase(status) IN
    CASE category = "Active" -> s \in VALID_ACTIVE_STATUSES
      [] category = "Design" -> s \in VALID_DESIGN_STATUSES
      [] category = "Research" -> s \in VALID_RESEARCH_STATUSES
      [] category = "Archive" -> TRUE

\* Invalid status for category
InvalidStatus(d) ==
    IF IsSome(d.frontmatter.status) /\ ~ StatusValid(Unwrap(d.frontmatter.status), d.category)
    THEN <<ValidationIssue(d.path, "Error",
                           Msg("invalid status '{}' for {} category",
                               <<ToLowercase(Unwrap(d.frontmatter.status)),
                                 CategoryName(d.category)>>))>>
    ELSE <<>>

validate_frontmatter(d) ==
    IF NoFrontmatter(d)
    THEN <<ValidationIssue(d.path, "Error", Msg("no frontmatter found", <<>>))>>
    ELSE MissingTitle(d) \o MissingAuthor(d) \o MissingCreated(d)
         \o DesignMissingDocId(d) \o ActiveMissingNextReview(d) \o InvalidStatus(d)

----------------------------------------------------------------------------
\* Broken link detection

\* Collect all relative paths present in the tree for lookup.
known_paths(tr) ==
    [i \in 1..Len(tr.docs) |-> ReplaceChar(StripRoot(tr.docs[i].path, tr.root), "\\", "/")]

\* The resolver without `link.ends_with(p)` in its first test.
path_exists_no_link_suffix(tr, dsk, link) ==
    LET known == known_paths(tr)
        stripped == StripPrefix(link, docs_dir \o SLASH)
    IN \/ \E i \in 1..Len(known) : known[i] = link \/ EndsWith(known[i], link)
       \/ PathJoin(tr.root, link) \in dsk
       \/ /\ IsSome(stripped)
          /\ \/ \E i \in 1..Len(known) :
                    known[i] = Unwrap(stripped) \/ EndsWith(known[i], Unwrap(stripped))
             \/ PathJoin(tr.root, Unwrap(stripped)) \in dsk

path_exists(tr, dsk, link) ==
    LET known == known_paths(tr)
        stripped == StripPrefix(link, docs_dir \o SLASH)
    IN \* Check in known relative paths.
       \/ \E i \in 1..Len(known) :
            known[i] = link \/ EndsWith(known[i], link) \/ EndsWith(link, known[i])
       \* Check as path relative to docs root.
       \/ PathJoin(tr.root, link) \in dsk
       \* Try stripping common prefixes like "docs/"
       \/ /\ IsSome(stripped)
          /\ \/ \E i \in 1..Len(known) :
                    known[i] = Unwrap(stripped) \/ EndsWith(known[i], Unwrap(stripped))
             \/ PathJoin(tr.root, Unwrap(stripped)) \in dsk

\* Check related_docs
RECURSIVE BrokenRelated(_, _, _, _)
BrokenRelated(related, d, tr, dsk) ==
    IF related = <<>> THEN <<>>
    ELSE (IF ~ path_exists(tr, dsk, Head(related))
          THEN <<CheckIssue(d.path, "BrokenLink", "Error",
                            Msg("Broken link: {} does not exist", <<Head(related)>>))>>
          ELSE <<>>)
         \o BrokenRelated(Tail(related), d, tr, dsk)

\* Check supersedes
BrokenSupersedes(d, tr, dsk) ==
    IF IsSome(d.frontmatter.supersedes) /\ ~ path_exists(tr, dsk, Unwrap(d.frontmatter.supersedes))
    THEN <<CheckIssue(d.path, "BrokenLink", "Error",
                      Msg("Supersedes target not found: {}", <<Unwrap(d.frontmatter.supersedes)>>))>>
    ELSE <<>>

\* The superseded_by test reading the supersedes field.
BrokenSupersededBy_reads_supersedes(d, tr, dsk) ==
    IF IsSome(d.frontmatter.supersedes) /\ ~ path_exists(tr, dsk, Unwrap(d.frontmatter.supersedes))
    THEN <<CheckIssue(d.path, "BrokenLink", "Error",
                      Msg("Superseded_by target not found: {}",
                          <<Unwrap(d.frontmatter.supersedes)>>))>>
    ELSE <<>>

\* Check superseded_by
BrokenSupersededBy(d, tr, dsk) ==
    IF IsSome(d.frontmatter.superseded_by)
       /\ ~ path_exists(tr, dsk, Unwrap(d.frontmatter.superseded_by))
    THEN <<CheckIssue(d.path, "BrokenLink", "Error",
                      Msg("Superseded_by target not found: {}",
                          <<Unwrap(d.frontmatter.superseded_by)>>))>>
    ELSE <<>>

RECURSIVE check_broken_links_from(_, _, _)
check_broken_links_from(docs, tr, dsk) ==
    IF docs = <<>> THEN <<>>
    ELSE BrokenRelated(RelatedDocs(Head(docs)), Head(docs), tr, dsk)
         \o BrokenSupersedes(Head(docs), tr, dsk)
         \o BrokenSupersededBy(Head(docs), tr, dsk)
         \o check_broken_links_from(Tail(docs), tr, dsk)

check_broken_links(tr, dsk) == check_broken_links_from(tr.docs, tr, dsk)

----------------------------------------------------------------------------
\* Frontmatter extraction

LF == "\n"
CR == "\r"
dashes == <<"-","-","-">>

\* str::find: the offset of the first occurrence of p in s.
Find(s, p) ==
    IF StrContains(s, p)
    THEN Some(CHOOSE i \in 0..(Len(s) - Len(p)) :
                  /\ SubSeq(s, i + 1, i + Len(p)) = p
                  /\ \A h \in 0..(i - 1) : SubSeq(s, h + 1, h + Len(p)) # p)
    ELSE None

\* The loop of find_closing_delimiter; offsets count from 0 as in the code,
\* so the byte at offset k is s[k + 1].
RECURSIVE find_closing_delimiter_from(_, _)
find_closing_delimiter_from(s, search_from) ==
    IF ~ (search_from < Len(s)) THEN None
    ELSE LET idx == Find(SubSeq(s, search_from + 1, Len(s)), dashes) IN
         IF IsNone(idx) THEN None
         ELSE LET abs == search_from + Unwrap(idx)
                  at_line_start == abs = 0 \/ s[abs] = LF
                  after == abs + 3
                  at_line_end == \/ after >= Len(s)
                                 \/ s[after + 1] = LF
                                 \/ s[after + 1] = CR
              IN IF at_line_start /\ at_line_end THEN Some(abs)
                 ELSE find_closing_delimiter_from(s, abs + 3)

find_closing_delimiter(s) == find_closing_delimiter_from(s, 0)

\* Option::or_else
OrElse(a, b) == IF IsSome(a) THEN a ELSE b

\* extract_frontmatter skipping a lone \r after the closing delimiter as well.
extract_frontmatter_skip_cr(content) ==
    LET opened == OrElse(StripPrefix(content, dashes \o <<LF>>),
                         StripPrefix(content, dashes \o <<CR, LF>>))
    IN IF IsNone(opened) THEN None
       ELSE LET rest == Unwrap(opened)
                close == find_closing_delimiter(rest)
            IN IF IsNone(close) THEN None
               ELSE LET yaml == SubSeq(rest, 1, Unwrap(close))
                        after == SubSeq(rest, Unwrap(close) + 4, Len(rest))
                        stripped == OrElse(OrElse(StripPrefix(after, <<LF>>),
                                                  StripPrefix(after, <<CR, LF>>)),
                                           StripPrefix(after, <<CR>>))
                        body == IF IsSome(stripped) THEN Unwrap(stripped) ELSE after
                    IN Some(<<yaml, body>>)

\* Some(<<yaml, body>>) or None.
extract_frontmatter(content) ==
    LET opened == OrElse(StripPrefix(content, dashes \o <<LF>>),
                         StripPrefix(content, dashes \o <<CR, LF>>))
    IN IF IsNone(opened) THEN None
       ELSE LET rest == Unwrap(opened)
                close == find_closing_delimiter(rest)
            IN IF IsNone(close) THEN None
               ELSE LET yaml == SubSeq(rest, 1, Unwrap(close))
                        after == SubSeq(rest, Unwrap(close) + 4, Len(rest))
                        stripped == OrElse(StripPrefix(after, <<LF>>),
                                           StripPrefix(after, <<CR, LF>>))
                        body == IF IsSome(stripped) THEN Unwrap(stripped) ELSE after
                    IN Some(<<yaml, body>>)

----------------------------------------------------------------------------
\* Parsing

\* Result<T, E>
Ok(v) == [ok |-> TRUE, value |-> v]
Err(e) == [ok |-> FALSE, error |-> e]

yaml_title == <<"t","i","t","l","e">>
yaml_status == <<"s","t","a","t","u","s">>
yaml_created == <<"c","r","e","a","t","e","d">>
yaml_doc_id == <<"d","o","c","_","i","d">>
yaml_tags == <<"t","a","g","s">>

\* The lines of a YAML payload: the text between line breaks (\n or \r).
RECURSIVE YamlLines(_)
YamlLines(s) ==
    IF s = <<>> THEN <<>>
    ELSE IF \E i \in 1..Len(s) : s[i] \in {LF, CR}
    THEN LET i == CHOOSE k \in 1..Len(s) :
                      /\ s[k] \in {LF, CR}
                      /\ \A h \in 1..(k - 1) : s[h] \notin {LF, CR}
         IN <<SubSeq(s, 1, i - 1)>> \o YamlLines(SubSeq(s, i + 1, Len(s)))
    ELSE <<s>>

IsBlank(line) == \A i \in 1..Len(line) : line[i] = " "

\* A block-mapping entry `key: value`, or `key:` with no value.
Entry(line) ==
    IF StrContains(line, <<":", " ">>)
    THEN LET i == Unwrap(Find(line, <<":", " ">>))
         IN Some([key |-> SubSeq(line, 1, i), value |-> Some(SubSeq(line, i + 3, Len(line)))])
    ELSE IF line[Len(line)] = ":"
    THEN Some([key |-> SubSeq(line, 1, Len(line) - 1), value |-> None])
    ELSE None

\* A date field: the model's dates are day numbers, written as one digit.
Digits == <<"0","1","2","3","4","5","6","7","8","9">>

ParseDate(v) ==
    IF Len(v) = 1 /\ \E i \in 1..Len(Digits) : Digits[i] = v[1]
    THEN Some((CHOOSE i \in 1..Len(Digits) : Digits[i] = v[1]) - 1)
    ELSE None

\* The plain scalars YAML resolves to null.
NullScalars == {<<"n","u","l","l">>, <<"~">>, <<>>}

QUOTE == "'"
DQUOTE == "\""

\* A single-quoted scalar (without a quote inside).
IsQuoted(v) ==
    /\ Len(v) >= 2
    /\ v[1] = QUOTE
    /\ v[Len(v)] = QUOTE
    /\ \A i \in 2..(Len(v) - 1) : v[i] # QUOTE

\* A double-quoted scalar (without a quote or an escape inside).
IsDoubleQuoted(v) ==
    /\ Len(v) >= 2
    /\ v[1] = DQUOTE
    /\ v[Len(v)] = DQUOTE
    /\ \A i \in 2..(Len(v) - 1) : v[i] \notin {DQUOTE, "\\"}

empty_flow_seq == <<"[", "]">>

\* Option<String> from the scalar of an entry: `key:` and the null scalars
\* are None, a quoted scalar is its content, a flow sequence or a scalar
\* whose quotes do not pair is an error, any other plain scalar is its own
\* text.
StringValue(value) ==
    IF IsNone(value) \/ Unwrap(value) \in NullScalars THEN Ok(None)
    ELSE IF IsQuoted(Unwrap(value)) \/ IsDoubleQuoted(Unwrap(value))
    THEN Ok(Some(SubSeq(Unwrap(value), 2, Len(Unwrap(value)) - 1)))
    ELSE IF Unwrap(value)[1] \in {"[", "{", QUOTE, DQUOTE} THEN Err("Yaml")
    ELSE Ok(value)

\* Option<NaiveDate> and Option<u32> from the scalar of an entry.
NumberValue(value) ==
    IF IsNone(value) \/ Unwrap(value) \in NullScalars THEN Ok(None)
    ELSE IF IsNone(ParseDate(Unwrap(value))) THEN Err("Yaml")
    ELSE Ok(ParseDate(Unwrap(value)))

\* A line of a block sequence: `- item`.
IsItem(line) == Len(line) >= 2 /\ line[1] = "-" /\ line[2] = " "

\* The lines of the block sequence that starts the given lines.
RECURSIVE TakeItems(_)
TakeItems(lines) ==
    IF lines = <<>> \/ ~IsItem(Head(lines)) THEN <<>>
    ELSE <<Head(lines)>> \o TakeItems(Tail(lines))

\* Vec<String> from the lines of a block sequence.
RECURSIVE ItemValues(_)
ItemValues(items) ==
    IF items = <<>> THEN Ok(<<>>)
    ELSE LET v == StringValue(Some(SubSeq(Head(items), 3, Len(Head(items)))))
             rest == ItemValues(Tail(items))
         IN IF ~v.ok \/ IsNone(v.value) \/ ~rest.ok THEN Err("Yaml")
            ELSE Ok(<<Unwrap(v.value)>> \o rest.value)

\* Option<Vec<String>> from an entry and the lines after it: `key:` followed
\* by a block sequence, `key: []`, or null; a scalar is a type error.
ListValue(value, after) ==
    IF IsSome(value) /\ Unwrap(value) = empty_flow_seq THEN Ok(Some(<<>>))
    ELSE IF IsSome(value) /\ Unwrap(value) \in NullScalars THEN Ok(None)
    ELSE IF IsSome(value) THEN Err("Yaml")
    ELSE IF TakeItems(after) = <<>> THEN Ok(None)
    ELSE LET items == ItemValues(TakeItems(after))
         IN IF items.ok THEN Ok(Some(items.value)) ELSE Err("Yaml")

\* Deserialization of the entries into RawFrontmatter: a line that is not an
\* entry, a field given twice or a field given a value of another type
\* fails; entries of other keys are ignored.
RECURSIVE ApplyEntries(_, _, _)
ApplyEntries(lines, fm, seen) ==
    IF lines = <<>> THEN Ok(fm)
    ELSE IF IsBlank(Head(lines)) THEN ApplyEntries(Tail(lines), fm, seen)
    ELSE IF IsItem(Head(lines)) \/ IsNone(Entry(Head(lines))) THEN Err("Yaml")
    ELSE LET key == Unwrap(Entry(Head(lines))).key
             value == Unwrap(Entry(Head(lines))).value
             after == Tail(lines)
             rest == SubSeq(after, Len(TakeItems(after)) + 1, Len(after))
             str == StringValue(value)
             num == NumberValue(value)
             list == ListValue(value, after)
         IN IF key \in seen THEN Err("Yaml")
            ELSE CASE key = yaml_title ->
                     IF ~str.ok \/ TakeItems(after) # <<>> THEN Err("Yaml")
                     ELSE ApplyEntries(after, [fm EXCEPT !.title = str.value], seen \cup {key})
              [] key = yaml_status ->
                     IF ~str.ok \/ TakeItems(after) # <<>> THEN Err("Yaml")
                     ELSE ApplyEntries(after, [fm EXCEPT !.status = str.value], seen \cup {key})
              [] key = yaml_created ->
                     IF ~num.ok \/ TakeItems(after) # <<>> THEN Err("Yaml")
                     ELSE ApplyEntries(after, [fm EXCEPT !.created = num.value], seen \cup {key})
              [] key = yaml_doc_id ->
                     IF ~num.ok \/ TakeItems(after) # <<>> THEN Err("Yaml")
                     ELSE ApplyEntries(after, [fm EXCEPT !.doc_id = num.value], seen \cup {key})
              [] key = yaml_tags ->
                     IF ~list.ok THEN Err("Yaml")
                     ELSE ApplyEntries(rest, [fm EXCEPT !.tags = list.value], seen \cup {key})
              [] OTHER -> ApplyEntries(rest, fm, seen)

\* serde_yaml::from_str for RawFrontmatter on block mappings of one-line
\* entries: the set of results the call can have.  What the library answers
\* for a payload without any entry is not fixed by the source, so both
\* answers are kept.
parse_frontmatter(yaml_str) ==
    IF \A i \in 1..Len(YamlLines(yaml_str)) : IsBlank(YamlLines(yaml_str)[i])
    THEN {Ok(DefaultFrontmatter), Err("Yaml")}
    ELSE {ApplyEntries(YamlLines(yaml_str), DefaultFrontmatter, {})}

\* Serialization (serde_yaml::to_string of the derived Serialize): one entry
\* per field, in declaration order, None as null.  Of the fields of
\* RawFrontmatter the entries of title, status, created, tags and doc_id are
\* written here, the ones the deserialization above reads.
yaml_null == <<"n","u","l","l">>

\* A string that would not read back as itself when written plain.
NeedsQuote(s) ==
    \/ s \in NullScalars
    \/ IsSome(ParseDate(s))
    \/ s[1] \in {"[", "{", "-", QUOTE}

\* A string scalar written plain whatever it holds.
EmitString_plain(s) == s

EmitString(s) == IF NeedsQuote(s) THEN <<QUOTE>> \o s \o <<QUOTE>> ELSE s

EmitNumber(n) == <<Digits[n + 1]>>

EmitEntry(key, scalar) == key \o <<":", " ">> \o scalar \o <<LF>>

RECURSIVE EmitItems(_)
EmitItems(list) ==
    IF list = <<>> THEN <<>>
    ELSE <<"-", " ">> \o EmitString(Head(list)) \o <<LF>> \o EmitItems(Tail(list))

EmitOptString(key, o) ==
    EmitEntry(key, IF IsNone(o) THEN yaml_null ELSE EmitString(Unwrap(o)))

EmitOptNumber(key, o) ==
    EmitEntry(key, IF IsNone(o) THEN yaml_null ELSE EmitNumber(Unwrap(o)))

EmitOptList(key, o) ==
    IF IsNone(o) THEN EmitEntry(key, yaml_null)
    ELSE IF Unwrap(o) = <<>> THEN EmitEntry(key, empty_flow_seq)
    ELSE key \o <<":", LF>> \o EmitItems(Unwrap(o))

to_yaml(fm) ==
    EmitOptString(yaml_title, fm.title)
      \o EmitOptString(yaml_status, fm.status)
      \o EmitOptNumber(yaml_created, fm.created)
      \o EmitOptList(yaml_tags, fm.tags)
      \o EmitOptNumber(yaml_doc_id, fm.doc_id)

\* resolve_status comparing the status as declared, without lower-casing.
resolve_status_as_declared(raw, category) ==
    LET status == IF IsSome(raw.status) THEN Unwrap(raw.status) ELSE <<>>
    IN CASE category = "Active" ->
                IF status \in {active, s_deprecated, s_draft} THEN status ELSE active
         [] category = "Design" ->
                IF status \in {s_proposed, s_accepted, s_implemented, s_rejected}
                THEN status ELSE s_proposed
         [] category = "Research" ->
                IF status \in {s_draft, s_published, s_obsolete} THEN status ELSE s_draft
         [] category = "Archive" -> s_archived

\* Resolve the effective status: the declared one, lower-cased, or the
\* default of the category.
resolve_status(raw, category) ==
    LET status == ToLowercase(IF IsSome(raw.status) THEN Unwrap(raw.status) ELSE <<>>)
    IN CASE category = "Active" ->
                IF status \in {active, s_deprecated, s_draft} THEN status ELSE active
         [] category = "Design" ->
                IF status \in {s_proposed, s_accepted, s_implemented, s_rejected}
                THEN status ELSE s_proposed
         [] category = "Research" ->
                IF status \in {s_draft, s_published, s_obsolete} THEN status ELSE s_draft
         [] category = "Archive" -> s_archived

\* The results parse_document can have for the file at path in the file
\* system fs (path -> text).
parse_document(path, fs) ==
    IF path \notin DOMAIN fs THEN {Err("Io")}
    ELSE LET content == fs[path]
             extracted_parts == extract_frontmatter(content)
         IN IF IsSome(extracted_parts)
            THEN {IF r.ok THEN Ok(Document(path, r.value, Unwrap(extracted_parts)[2]))
                  ELSE r : r \in parse_frontmatter(Unwrap(extracted_parts)[1])}
            ELSE {Ok(Document(path, DefaultFrontmatter, content))}

----------------------------------------------------------------------------
\* Scanning

md_ext == <<".","m","d">>

\* The characters of the model's paths in the order of their code points.
CharOrder == <<" ","#","-",".","/","0","1","2","3","4","5","6","7","8","9",":",
               "A","B","C","D","E","F","G","H","I","J","K","L","M","N","O","P",
               "Q","R","S","T","U","V","W","X","Y","Z","_","a","b","c","d","e",
               "f","g","h","i","j","k","l","m","n","o","p","q","r","s","t","u",
               "v","w","x","y","z">>

CharRank(c) == CHOOSE i \in 1..Len(CharOrder) : CharOrder[i] = c

\* Ord for str
StrLess(a, b) ==
    \E k \in 1..Len(b) :
        /\ \A h \in 1..(k - 1) : h <= Len(a) /\ a[h] = b[h]
        /\ k > Len(a) \/ CharRank(a[k]) < CharRank(b[k])

\* Path::components
RECURSIVE Components(_)
Components(path) ==
    IF StrContains(path, SLASH)
    THEN LET i == Unwrap(Find(path, SLASH))
         IN <<SubSeq(path, 1, i)>> \o Components(SubSeq(path, i + 2, Len(path)))
    ELSE <<path>>

\* Ord for Path: component by component.
PathLess(a, b) ==
    LET ca == Components(a)
        cb == Components(b)
    IN \E k \in 1..Len(cb) :
           /\ \A h \in 1..(k - 1) : h <= Len(ca) /\ ca[h] = cb[h]
           /\ k > Len(ca) \/ StrLess(ca[k], cb[k])

\* glob::glob("{root}/**/*.md"): the matching files, in alphabetical order.
RECURSIVE SortPaths(_)
SortPaths(S) ==
    IF S = {} THEN <<>>
    ELSE LET first == CHOOSE x \in S : \A y \in S \ {x} : PathLess(x, y)
         IN <<first>> \o SortPaths(S \ {first})

Glob(r, fs) ==
    SortPaths({f \in DOMAIN fs : StartsWith(f, r \o SLASH) /\ EndsWith(f, md_ext)})

ScanError(path, message) == [path |-> path, message |-> message]

DefaultFilter == [categories |-> None, tags |-> None, status |-> None, author |-> None]

\* str::eq_ignore_ascii_case
EqIgnoreCase(a, b) == ToLowercase(a) = ToLowercase(b)

\* ScanFilter::matches
matches(filter, d) ==
    /\ IsSome(filter.categories) =>
           \E i \in 1..Len(Unwrap(filter.categories)) : Unwrap(filter.categories)[i] = d.category
    /\ IsSome(filter.tags) =>
           LET doc_tags == IF IsSome(d.frontmatter.tags) THEN Unwrap(d.frontmatter.tags) ELSE <<>>
           IN \E i \in 1..Len(Unwrap(filter.tags)) : \E j \in 1..Len(doc_tags) :
                  EqIgnoreCase(doc_tags[j], Unwrap(filter.tags)[i])
    /\ IsSome(filter.status) =>
           EqIgnoreCase(IF IsSome(d.frontmatter.status) THEN Unwrap(d.frontmatter.status)
                        ELSE <<>>, Unwrap(filter.status))
    /\ IsSome(filter.author) =>
           EqIgnoreCase(IF IsSome(d.frontmatter.author) THEN Unwrap(d.frontmatter.author)
                        ELSE <<>>, Unwrap(filter.author))

\* A scan that stops at the first file that fails to parse.
RECURSIVE scan_entries_abort_on_error(_, _, _)
scan_entries_abort_on_error(entries, fs, filter) ==
    IF entries = <<>> THEN {[docs |-> <<>>, errors |-> <<>>]}
    ELSE UNION {
        IF res.ok
        THEN {[docs |-> (IF matches(filter, res.value) THEN <<res.value>> ELSE <<>>) \o rest.docs,
               errors |-> rest.errors] :
                 rest \in scan_entries_abort_on_error(Tail(entries), fs, filter)}
        ELSE {[docs |-> <<>>, errors |-> <<ScanError(Head(entries), res.error)>>]}
        : res \in parse_document(Head(entries), fs)}

\* The loop over the glob entries: the documents and errors it can collect.
RECURSIVE scan_entries(_, _, _)
scan_entries(entries, fs, filter) ==
    IF entries = <<>> THEN {[docs |-> <<>>, errors |-> <<>>]}
    ELSE {IF res.ok
          THEN [docs |-> (IF matches(filter, res.value) THEN <<res.value>> ELSE <<>>) \o rest.docs,
                errors |-> rest.errors]
          ELSE [docs |-> rest.docs,
                errors |-> <<ScanError(Head(entries), res.error)>> \o rest.errors] :
             res \in parse_document(Head(entries), fs),
             rest \in scan_entries(Tail(entries), fs, filter)}

\* docs.sort_by(|a, b| a.path.cmp(&b.path)), a stable sort.
RECURSIVE InsertByPath(_, _)
InsertByPath(d, sorted) ==
    IF sorted = <<>> THEN <<d>>
    ELSE IF ~ PathLess(Head(sorted).path, d.path) THEN <<d>> \o sorted
    ELSE <<Head(sorted)>> \o InsertByPath(d, Tail(sorted))

RECURSIVE SortByPath(_)
SortByPath(docs) ==
    IF docs = <<>> THEN <<>> ELSE InsertByPath(Head(docs), SortByPath(Tail(docs)))

\* The trees DocTree::scan_filtered can return.
scan_filtered(r, fs, filter) ==
    {[docs |-> SortByPath(found.docs), errors |-> found.errors, root |-> r] :
        found \in scan_entries(Glob(r, fs), fs, filter)}

scan(r, fs) == scan_filtered(r, fs, DefaultFilter)

----------------------------------------------------------------------------
\* Frontmatter checks

no_frontmatter == <<"n","o"," ","f","r","o","n","t","m","a","t","t","e","r">>

\* The literal text of the validator's messages, cut where format! inserts
\* its arguments.
FormatPieces(fmt) ==
    CASE fmt = "no frontmatter found" ->
             <<<<"n","o"," ","f","r","o","n","t","m","a","t","t","e","r"," ","f","o","u","n","d">>>>
      [] fmt = "missing title" ->
             <<<<"m","i","s","s","i","n","g"," ","t","i","t","l","e">>>>
      [] fmt = "missing author" ->
             <<<<"m","i","s","s","i","n","g"," ","a","u","t","h","o","r">>>>
      [] fmt = "missing created date" ->
             <<<<"m","i","s","s","i","n","g"," ","c","r","e","a","t","e","d"," ","d","a","t","e">>>>
      [] fmt = "design doc missing doc_id" ->
             <<<<"d","e","s","i","g","n"," ","d","o","c"," ","m","i","s","s","i","n","g"," ","d","o","c","_","i","d">>>>
      [] fmt = "active doc missing next_review" ->
             <<<<"a","c","t","i","v","e"," ","d","o","c"," ","m","i","s","s","i","n","g"," ","n","e","x","t","_","r","e","v","i","e","w">>>>
      [] fmt = "invalid status '{}' for {} category" ->
             <<<<"i","n","v","a","l","i","d"," ","s","t","a","t","u","s"," ","'">>,
               <<"'"," ","f","o","r"," ">>,
               <<" ","c","a","t","e","g","o","r","y">>>>

\* format!: the pieces of the format string with the arguments between them.
RECURSIVE Interleave(_, _)
Interleave(pieces, args) ==
    IF args = <<>> THEN Head(pieces)
    ELSE Head(pieces) \o Head(args) \o Interleave(Tail(pieces), Tail(args))

\* The String a validator message is.
MessageText(message) == Interleave(FormatPieces(message.fmt), message.args)

FrontmatterCheckType(vi) ==
    IF StrContains(MessageText(vi.message), no_frontmatter)
    THEN "MissingFrontmatter" ELSE "InvalidMetadata"

\* The inner loop: one CheckIssue per ValidationIssue.
Retag(validation_issues) ==
    [k \in 1..Len(validation_issues) |->
        CheckIssue(validation_issues[k].path, FrontmatterCheckType(validation_issues[k]),
                   validation_issues[k].severity, validation_issues[k].message)]

RECURSIVE check_frontmatter_from(_)
check_frontmatter_from(docs) ==
    IF docs = <<>> THEN <<>>
    ELSE Retag(validate_frontmatter(Head(docs))) \o check_frontmatter_from(Tail(docs))

check_frontmatter(tr) == check_frontmatter_from(tr.docs)

----------------------------------------------------------------------------
\* Combined check and report

\* run_all_checks_with_date with the link check run before the others.
run_all_checks_with_date_links_first(tr, dsk, t) ==
    [issues |-> check_broken_links(tr, dsk) \o check_stale(tr, t)
                \o check_orphans_with_date(tr, t) \o check_frontmatter(tr),
     docs_checked |-> Len(tr.docs),
     timestamp |-> t]

run_all_checks_with_date(tr, dsk, t) ==
    [issues |-> check_stale(tr, t) \o check_orphans_with_date(tr, t)
                \o check_broken_links(tr, dsk) \o check_frontmatter(tr),
     docs_checked |-> Len(tr.docs),
     timestamp |-> t]

\* has_errors answering for any issue at all.
has_errors_any_issue(r) == r.issues # <<>>

has_errors(r) == \E k \in 1..Len(r.issues) : r.issues[k].severity = "Error"

has_warnings(r) == \E k \in 1..Len(r.issues) : r.issues[k].severity = "Warning"

\* iter().filter(severity == sev)
WithSeverity(list, sev) == SelectSeq(list, LAMBDA i : i.severity = sev)

error_count(r) == Len(WithSeverity(r.issues, "Error"))

warning_count(r) == Len(WithSeverity(r.issues, "Warning"))

info_count(r) == Len(WithSeverity(r.issues, "Info"))

\* impl Display for CheckType
CheckTypeName(check_type) ==
    CASE check_type = "Stale" -> "stale"
      [] check_type = "Orphan" -> "orphan"
      [] check_type = "BrokenLink" -> "broken_link"
      [] check_type = "MissingFrontmatter" -> "missing_frontmatter"
      [] check_type = "InvalidMetadata" -> "invalid_metadata"

\* One printed line of an issue.
IssueLine(issue) ==
    Msg("  [{}] {}: {}", <<CheckTypeName(issue.check_type), issue.path, issue.message>>)

\* A section printed whether or not it has an issue.
Section_always(header, group) ==
    <<Msg("", <<>>), Msg(header, <<>>)>> \o [k \in 1..Len(group) |-> IssueLine(group[k])]

\* The section of one severity: a blank line, the header and one line per
\* issue, or nothing when there is no issue of that severity.
Section(header, group) ==
    IF group = <<>> THEN <<>>
    ELSE <<Msg("", <<>>), Msg(header, <<>>)>> \o [k \in 1..Len(group) |-> IssueLine(group[k])]

\* The lines of the text format_report returns.
format_report(r) ==
    <<Msg("Document Health Check Report", <<>>),
      Msg("===========================", <<>>),
      Msg("Checked: {} documents", <<r.docs_checked>>),
      Msg("Errors: {} | Warnings: {} | Info: {}",
          <<error_count(r), warning_count(r), info_count(r)>>)>>
    \o Section("ERRORS:", WithSeverity(r.issues, "Error"))
    \o Section("WARNINGS:", WithSeverity(r.issues, "Warning"))
    \o Section("INFO:", WithSeverity(r.issues, "Info"))

\* The exit code of a check that fails on warnings too.
CheckExitCode_on_warnings(r) == IF has_errors(r) \/ has_warnings(r) THEN 1 ELSE 0

\* The exit code of `docman check`: process::exit(1) on errors, else the
\* return from main.
CheckExitCode(r) == IF has_errors(r) THEN 1 ELSE 0

----------------------------------------------------------------------------
\* Bounds and input pools of the category specification

MaxSegs == 3        \* segments of a root-relative path
MaxRootSegs == 1    \* segments of a scan root

SegPool == {active, design, research, archive, a_md}
RootSegPool == {active, design, srv}

RECURSIVE JoinSegs(_, _)
JoinSegs(segs, sep) ==
    IF Len(segs) = 0 THEN <<>>
    ELSE IF Len(segs) = 1 THEN segs[1]
    ELSE segs[1] \o sep \o JoinSegs(Tail(segs), sep)

SegSeqs(pool, n) == UNION {[1..k -> pool] : k \in 1..n}

RelPaths == {JoinSegs(s, sep) : s \in SegSeqs(SegPool, MaxSegs), sep \in {SLASH, BACKSLASH}}
Roots == {<<>>} \cup {SLASH \o JoinSegs(s, SLASH) : s \in SegSeqs(RootSegPool, MaxRootSegs)}

DefaultTree == [docs |-> <<>>, errors |-> <<>>, root |-> <<>>]
DefaultDoc == <<>>
DefaultReport == [issues |-> <<>>, docs_checked |-> 0, timestamp |-> 0]

\* No file has been read and nothing has been parsed.
NoParse ==
    /\ files = <<>>
    /\ yaml_text = <<>>
    /\ extracted = None
    /\ parsed = None
    /\ resolved = None

\* No report has been built, nothing printed, the process is running.
NoReport ==
    /\ report = DefaultReport
    /\ text = <<>>
    /\ stdout = <<>>
    /\ exit_code = None

InitCategory ==
    /\ root \in Roots
    /\ rel \in RelPaths
    /\ catAbs = None
    /\ catRel = None
    /\ NoParse
    /\ NoReport
    /\ pc = "init"
    /\ tree = DefaultTree
    /\ disk = {}
    /\ today = 0
    /\ issues = <<>>
    /\ doc = DefaultDoc

\* infer_category applied to the root-relative form of the path.
InferRelative ==
    /\ catRel = None
    /\ catRel' = Some(infer_category(rel))
    /\ pc' = "infer_category"
    /\ UNCHANGED <<tree, disk, today, issues, doc, root, rel, catAbs>>
    /\ UNCHANGED <<parseVars, reportVars>>

\* infer_category applied to the full path, as parse_document does on the
\* paths glob yields under the scan root.
InferAbsolute ==
    /\ catAbs = None
    /\ catAbs' = Some(infer_category(PathJoin(root, rel)))
    /\ pc' = "infer_category"
    /\ UNCHANGED <<tree, disk, today, issues, doc, root, rel, catRel>>
    /\ UNCHANGED <<parseVars, reportVars>>

NextCategory == InferRelative \/ InferAbsolute

SpecCategory == InitCategory /\ [][NextCategory]_vars

----------------------------------------------------------------------------
\* Category classifier: claims C9, C10

\* The segments of a path: the pieces between '/' separators.
RECURSIVE Segments(_)
Segments(s) ==
    IF ~ \E i \in 1..Len(s) : s[i] = "/" THEN <<s>>
    ELSE LET i == CHOOSE j \in 1..Len(s) : s[j] = "/" /\ \A k \in 1..(j - 1) : s[k] # "/"
         IN <<SubSeq(s, 1, i - 1)>> \o Segments(SubSeq(s, i + 1, Len(s)))

Range(f) == {f[i] : i \in DOMAIN f}

\* The first category, in the order active, design, research, archive, whose
\* name is in the set of segments; Active when there is none.
FirstNamed(segset) ==
    IF active \in segset THEN "Active"
    ELSE IF design \in segset THEN "Design"
    ELSE IF research \in segset THEN "Research"
    ELSE IF archive \in segset THEN "Archive"
    ELSE "Active"

AllSegments(path) == Range(Segments(ReplaceChar(path, "\\", "/")))

DirSegments(path) ==
    LET segs == Segments(ReplaceChar(path, "\\", "/"))
    IN {segs[i] : i \in 1..(Len(segs) - 1)}

\* C9 as stated: infer_category returns the first name, in the priority order
\* active, design, research, archive, equal to any segment of the path, the
\* last one included, and Active when no segment is one of the names.
C9_AnySegment ==
    /\ IsSome(catRel) => Unwrap(catRel) = FirstNamed(AllSegments(rel))
    /\ IsSome(catAbs) => Unwrap(catAbs) = FirstNamed(AllSegments(PathJoin(root, rel)))

\* C9 amended: infer_category returns the first name, in the priority order
\* active, design, research, archive, equal to some segment of the path other
\* than its last one, and Active when no such segment is one of the names.
C9_DirSegment ==
    /\ IsSome(catRel) => Unwrap(catRel) = FirstNamed(DirSegments(rel))
    /\ IsSome(catAbs) => Unwrap(catAbs) = FirstNamed(DirSegments(PathJoin(root, rel)))

\* A path research/design/<last>: the later segment wins by priority.
C9_Witness ==
    /\ catRel = Some("Design")
    /\ LET segs == Segments(ReplaceChar(rel, "\\", "/"))
       IN Len(segs) = 3 /\ segs[1] = research /\ segs[2] = design

\* C10: infer_category gives the same category for the root-relative path and
\* for the path joined onto the scan root, whatever the root's directories are.
C10_RootIndependent ==
    (IsSome(catAbs) /\ IsSome(catRel)) => catAbs = catRel

----------------------------------------------------------------------------
\* Document collections handed to the health checks

MaxDocs == 2        \* documents in a collection
MaxDocDate == 1     \* document dates are days 0..MaxDocDate

TextBody == <<"#">>

RECURSIVE IdxSeq(_)
IdxSeq(S) ==
    IF S = {} THEN <<>>
    ELSE LET m == CHOOSE x \in S : \A y \in S : x <= y
         IN <<m>> \o IdxSeq(S \ {m})

\* The document lists over the files paths[i], i in idx, with the frontmatter
\* of paths[i] drawn from fmsAt[i].
RECURSIVE DocSeqs(_, _, _, _)
DocSeqs(r, paths, fmsAt, idx) ==
    IF idx = <<>> THEN {<<>>}
    ELSE {<<Document(PathJoin(r, paths[Head(idx)]), fm, TextBody)>> \o rest :
             fm \in fmsAt[Head(idx)], rest \in DocSeqs(r, paths, fmsAt, Tail(idx))}

\* The collections a scan of root r can produce from the files paths (listed
\* in the order scan_filtered sorts them into): at most n documents, distinct
\* paths, in path order.
TreesOver(r, paths, fmsAt, n) ==
    UNION {
        { [docs |-> ds, errors |-> <<>>, root |-> r] : ds \in DocSeqs(r, paths, fmsAt, IdxSeq(S)) }
        : S \in {T \in SUBSET (1..Len(paths)) : Cardinality(T) <= n} }

OptDates == {None} \cup {Some(x) : x \in 0..MaxDocDate}

\* Reference dates around each threshold, and before every document date.
TodayVals == UNION {t..(t + MaxDocDate + 1) : t \in {0, ReviewDays, StaleDays}}

SrvRoot == SLASH \o srv

----------------------------------------------------------------------------
\* Specification of check_stale

StalePaths == <<README_md, JoinSegs(<<active, a_md>>, SLASH), JoinSegs(<<design, d_md>>, SLASH)>>

StaleFrontmatters ==
    {[DefaultFrontmatter EXCEPT !.next_review = nr, !.last_updated = lu] :
        nr \in OptDates, lu \in OptDates}

InitStale ==
    /\ tree \in TreesOver(SrvRoot, StalePaths, [i \in 1..Len(StalePaths) |-> StaleFrontmatters], MaxDocs)
    /\ today \in TodayVals
    /\ issues = <<>>
    /\ pc = "init"
    /\ disk = {}
    /\ doc = DefaultDoc
    /\ root = <<>>
    /\ rel = <<>>
    /\ catAbs = None
    /\ catRel = None
    /\ NoParse
    /\ NoReport

CheckStale ==
    /\ pc = "init"
    /\ issues' = check_stale(tree, today)
    /\ pc' = "check_stale"
    /\ UNCHANGED <<tree, disk, today, doc, root, rel, catAbs, catRel>>
    /\ UNCHANGED <<parseVars, reportVars>>

NextStale == CheckStale

SpecStale == InitStale /\ [][NextStale]_vars

IssuesWithFmt(list, path, fmt) ==
    {i \in 1..Len(list) : list[i].path = path /\ list[i].message.fmt = fmt}

\* C1: for every document and reference date, check_stale emits the Stale
\* Warning "Review overdue since <next_review>" for the document if and only
\* if next_review is present and next_review < reference date.
C1_ReviewOverdue ==
    pc = "check_stale" =>
        \A k \in 1..Len(tree.docs) :
            LET d == tree.docs[k]
                nr == d.frontmatter.next_review
                hits == IssuesWithFmt(issues, d.path, "Review overdue since {}")
            IN /\ (hits # {}) <=> (IsSome(nr) /\ Unwrap(nr) < today)
               /\ \A i \in hits : /\ issues[i].check_type = "Stale"
                                  /\ issues[i].severity = "Warning"
                                  /\ issues[i].message.args = <<Unwrap(nr)>>

\* Two documents, one overdue and reported, one due today and not reported.
C1_Witness ==
    /\ pc = "check_stale"
    /\ Len(tree.docs) = 2
    /\ \E j, k \in 1..2 :
        /\ tree.docs[j].frontmatter.next_review = Some(today - 1)
        /\ IssuesWithFmt(issues, tree.docs[j].path, "Review overdue since {}") # {}
        /\ tree.docs[k].frontmatter.next_review = Some(today)
        /\ IssuesWithFmt(issues, tree.docs[k].path, "Review overdue since {}") = {}

\* C2: for every document with last_updated present, check_stale emits exactly
\* one Stale Warning "Not updated in over 6 months (last: <last_updated>)" when
\* reference date - last_updated > 180 days, and none when the difference is
\* 180 days or less, a last_updated in the future included.
C2_NotUpdated ==
    pc = "check_stale" =>
        \A k \in 1..Len(tree.docs) :
            LET d == tree.docs[k]
                lu == d.frontmatter.last_updated
                hits == IssuesWithFmt(issues, d.path, "Not updated in over 6 months (last: {})")
            IN IsSome(lu) =>
                /\ today - Unwrap(lu) > 180 => Cardinality(hits) = 1
                /\ today - Unwrap(lu) <= 180 => hits = {}
                /\ \A i \in hits : /\ issues[i].check_type = "Stale"
                                   /\ issues[i].severity = "Warning"
                                   /\ issues[i].message.args = <<Unwrap(lu)>>

\* One document 181 days old and reported once, one exactly 180 days old and
\* not reported.
C2_Witness ==
    /\ pc = "check_stale"
    /\ Len(tree.docs) = 2
    /\ \E j, k \in 1..2 :
        /\ tree.docs[j].frontmatter.last_updated = Some(today - 181)
        /\ Cardinality(IssuesWithFmt(issues, tree.docs[j].path,
                                     "Not updated in over 6 months (last: {})")) = 1
        /\ tree.docs[k].frontmatter.last_updated = Some(today - 180)
        /\ IssuesWithFmt(issues, tree.docs[k].path,
                         "Not updated in over 6 months (last: {})") = {}

\* The Stale issues check_stale has emitted for the document at path.
StaleIssues(list, path) ==
    {i \in 1..Len(list) : list[i].path = path /\ list[i].check_type = "Stale"}

\* C22 as stated: the three staleness conditions are independent and a single
\* document may emit all three Stale issues in one run, that is, at the
\* reference date of a run (late enough for every condition) some document
\* (any path, any next_review and last_updated) gets three issues.
C22_AllThree ==
    pc = "check_stale" /\ today > StaleDays =>
        \E i \in 1..Len(StalePaths), nr, lu \in {None} \cup {Some(x) : x \in 0..today} :
            Len(check_stale_from(
                    <<Document(PathJoin(SrvRoot, StalePaths[i]),
                               [DefaultFrontmatter EXCEPT !.next_review = nr, !.last_updated = lu],
                               TextBody)>>, today)) = 3

\* C22 (amended): review overdue needs next_review present and no review date
\* needs it absent, so the two never come together: a document gets at most
\* two Stale issues in one run, "Not updated in over 6 months" with either
\* of the other two.
C22_AtMostTwo ==
    pc = "check_stale" =>
        \A k \in 1..Len(tree.docs) :
            LET p == tree.docs[k].path
            IN /\ Cardinality(StaleIssues(issues, p)) <= 2
               /\ ~ /\ IssuesWithFmt(issues, p, "Review overdue since {}") # {}
                    /\ IssuesWithFmt(issues, p, "No review date set") # {}

\* One run in which a document is overdue for review and not updated, and
\* another is not updated and has no review date.
C22_Witness ==
    /\ pc = "check_stale"
    /\ \E j, k \in 1..Len(tree.docs) :
        /\ IssuesWithFmt(issues, tree.docs[j].path, "Review overdue since {}") # {}
        /\ IssuesWithFmt(issues, tree.docs[j].path, "Not updated in over 6 months (last: {})") # {}
        /\ IssuesWithFmt(issues, tree.docs[k].path, "No review date set") # {}
        /\ IssuesWithFmt(issues, tree.docs[k].path, "Not updated in over 6 months (last: {})") # {}
        /\ Cardinality(StaleIssues(issues, tree.docs[j].path)) = 2
        /\ Cardinality(StaleIssues(issues, tree.docs[k].path)) = 2

----------------------------------------------------------------------------
\* Specification of check_orphans_with_date

OrphanPaths == <<JoinSegs(<<active, a_md>>, SLASH), JoinSegs(<<design, d_md>>, SLASH)>>

OrphanStatuses ==
    {None} \cup {Some(x) : x \in {s_accepted, s_Accepted, s_proposed, s_rejected, s_implemented}}

OrphanFrontmatters ==
    {[DefaultFrontmatter EXCEPT !.status = st, !.implementation_pr = pr,
                                !.decision_date = dd, !.related_docs = rd] :
        st \in OrphanStatuses, pr \in {None, Some(7)}, dd \in OptDates,
        rd \in {None, Some(<<JoinSegs(<<design, d_md>>, SLASH)>>)}}

OrphanTodayVals == ReviewDays..(ReviewDays + MaxDocDate + 1)

InitOrphans ==
    /\ tree \in TreesOver(SrvRoot, OrphanPaths, [i \in 1..Len(OrphanPaths) |-> OrphanFrontmatters], MaxDocs)
    /\ today \in OrphanTodayVals
    /\ issues = <<>>
    /\ pc = "init"
    /\ disk = {}
    /\ doc = DefaultDoc
    /\ root = <<>>
    /\ rel = <<>>
    /\ catAbs = None
    /\ catRel = None
    /\ NoParse
    /\ NoReport

CheckOrphans ==
    /\ pc = "init"
    /\ issues' = check_orphans_with_date(tree, today)
    /\ pc' = "check_orphans"
    /\ UNCHANGED <<tree, disk, today, doc, root, rel, catAbs, catRel>>
    /\ UNCHANGED <<parseVars, reportVars>>

NextOrphans == CheckOrphans

SpecOrphans == InitOrphans /\ [][NextOrphans]_vars

IssuesAbout(list, path) == {i \in 1..Len(list) : list[i].path = path}

\* C3: a Design document whose status is "accepted", compared without regard
\* to case, and whose implementation_pr is absent always yields the Orphan
\* Warning "Accepted design doc has no implementation PR"; a document that is
\* not Design, or whose status is proposed, rejected or absent, never yields
\* any Orphan issue.
C3_AcceptedNoPR ==
    pc = "check_orphans" =>
        \A k \in 1..Len(tree.docs) :
            LET d == tree.docs[k]
                st == d.frontmatter.status
                hits == IssuesWithFmt(issues, d.path, "Accepted design doc has no implementation PR")
            IN /\ ( /\ d.category = "Design"
                    /\ IsSome(st) /\ ToLowercase(Unwrap(st)) = s_accepted
                    /\ IsNone(d.frontmatter.implementation_pr) )
                  => \E i \in hits : issues[i].check_type = "Orphan" /\ issues[i].severity = "Warning"
               /\ ( \/ d.category # "Design"
                    \/ IsNone(st)
                    \/ ToLowercase(Unwrap(st)) \in {s_proposed, s_rejected} )
                  => IssuesAbout(issues, d.path) = {}

\* A Design document declared "Accepted" with no PR is reported, next to an
\* Active document with the same fields, which is not.
C3_Witness ==
    /\ pc = "check_orphans"
    /\ Len(tree.docs) = 2
    /\ \E j, k \in 1..2 :
        /\ tree.docs[j].category = "Design"
        /\ tree.docs[j].frontmatter.status = Some(s_Accepted)
        /\ tree.docs[j].frontmatter.implementation_pr = None
        /\ IssuesWithFmt(issues, tree.docs[j].path,
                         "Accepted design doc has no implementation PR") # {}
        /\ tree.docs[k].category = "Active"
        /\ tree.docs[k].frontmatter.status = Some(s_accepted)
        /\ tree.docs[k].frontmatter.implementation_pr = None
        /\ IssuesAbout(issues, tree.docs[k].path) = {}

\* C23: for a Design document whose lower-cased status is "accepted" the
\* Orphan Warning "Accepted >90 days without implementation" is emitted if and
\* only if decision_date is present and more than 90 days before the
\* reference date (none at exactly 90), whether or not implementation_pr is
\* present; with no implementation_pr and a decision_date more than 90 days
\* old the document gets exactly two Orphan issues, both Warnings.
C23_AcceptedOverdue ==
    pc = "check_orphans" =>
        \A k \in 1..Len(tree.docs) :
            LET d == tree.docs[k]
                dd == d.frontmatter.decision_date
                hits == IssuesWithFmt(issues, d.path, "Accepted >90 days without implementation")
                old == IsSome(dd) /\ today - Unwrap(dd) > 90
            IN (d.category = "Design" /\ StatusLower(d) = s_accepted) =>
                /\ (hits # {}) <=> old
                /\ \A i \in hits : issues[i].check_type = "Orphan" /\ issues[i].severity = "Warning"
                /\ (old /\ IsNone(d.frontmatter.implementation_pr)) =>
                      /\ Cardinality(IssuesAbout(issues, d.path)) = 2
                      /\ \A i \in IssuesAbout(issues, d.path) :
                            issues[i].check_type = "Orphan" /\ issues[i].severity = "Warning"
                      /\ \E i \in IssuesAbout(issues, d.path) : i \notin hits

\* An accepted design document without PR whose decision is 91 days old got
\* its two Warnings.
C23_Witness ==
    /\ pc = "check_orphans"
    /\ \E k \in 1..Len(tree.docs) :
        LET d == tree.docs[k]
        IN /\ d.category = "Design"
           /\ StatusLower(d) = s_accepted
           /\ d.frontmatter.decision_date = Some(today - 91)
           /\ d.frontmatter.implementation_pr = None
           /\ Cardinality(IssuesAbout(issues, d.path)) = 2

----------------------------------------------------------------------------
\* Specification of validate_frontmatter

ValidatePaths ==
    {PathJoin(SrvRoot, JoinSegs(<<c, a_md>>, SLASH)) : c \in {active, design, research, archive}}
    \cup {PathJoin(SrvRoot, README_md)}

ValidateStatuses ==
    {None} \cup {Some(x) : x \in {active, s_deprecated, s_draft, s_Draft, s_proposed, s_PROPOSED,
                                 s_accepted, s_implemented, s_rejected, s_published,
                                 s_obsolete, s_archived, s_bogus}}

\* The declared `type` of a document (RawFrontmatter::doc_type).
DocTypes == {None, Some(design), Some(research)}

ValidateFrontmatters ==
    {[DefaultFrontmatter EXCEPT !.title = ti, !.author = au, !.status = st, !.created = cr,
                                !.tags = tg, !.doc_id = id, !.next_review = nr,
                                !.doc_type = ty] :
        ti \in {None, Some(<<"T">>)}, au \in {None, Some(<<"a">>)}, st \in ValidateStatuses,
        cr \in {None, Some(0)}, tg \in {None, Some(<<>>)}, id \in {None, Some(1)},
        nr \in {None, Some(0)}, ty \in DocTypes}

InitValidate ==
    /\ doc \in {Document(p, fm, b) : p \in ValidatePaths, fm \in ValidateFrontmatters,
                                     b \in {<<>>, TextBody}}
    /\ issues = <<>>
    /\ pc = "init"
    /\ tree = DefaultTree
    /\ today = 0
    /\ disk = {}
    /\ root = <<>>
    /\ rel = <<>>
    /\ catAbs = None
    /\ catRel = None
    /\ NoParse
    /\ NoReport

Validate ==
    /\ pc = "init"
    /\ issues' = validate_frontmatter(doc)
    /\ pc' = "validate_frontmatter"
    /\ UNCHANGED <<tree, disk, today, doc, root, rel, catAbs, catRel>>
    /\ UNCHANGED <<parseVars, reportVars>>

NextValidate == Validate

SpecValidate == InitValidate /\ [][NextValidate]_vars

WithFmt(list, fmt) == {i \in 1..Len(list) : list[i].message.fmt = fmt}

FiveAbsent ==
    /\ doc.frontmatter.title = None
    /\ doc.frontmatter.author = None
    /\ doc.frontmatter.status = None
    /\ doc.frontmatter.created = None
    /\ doc.frontmatter.tags = None

\* The no-frontmatter rule fires.
RuleOneFires == FiveAbsent /\ Len(doc.body) > 0

\* C5: validate_frontmatter returns exactly one issue, the Error
\* "no frontmatter found", if and only if title, author, status, created and
\* tags are all absent and the body is non-empty; no other issue is ever
\* returned together with it.
C5_NoFrontmatterAlone ==
    pc = "validate_frontmatter" =>
        /\ RuleOneFires <=>
             issues = <<[path |-> doc.path, severity |-> "Error",
                         message |-> [fmt |-> "no frontmatter found", args |-> <<>>]]>>
        /\ WithFmt(issues, "no frontmatter found") # {} => Len(issues) = 1

\* A Design document without doc_id and with none of the five fields: only
\* the no-frontmatter issue is returned.
C5_Witness ==
    /\ pc = "validate_frontmatter"
    /\ doc.category = "Design"
    /\ doc.frontmatter = [title |-> <<>>, status |-> <<>>, created |-> <<>>,
                          last_updated |-> <<>>, author |-> <<>>, next_review |-> <<>>,
                          tags |-> <<>>, related_docs |-> <<>>, supersedes |-> <<>>,
                          superseded_by |-> <<>>, doc_id |-> <<>>, decision_date |-> <<>>,
                          implementation_pr |-> <<>>, doc_type |-> <<>>]
    /\ Len(doc.body) > 0
    /\ Len(issues) = 1
    /\ issues[1].message.fmt = "no frontmatter found"

ValidSet(category) ==
    CASE category = "Active" -> {active, s_deprecated, s_draft}
      [] category = "Design" -> {s_proposed, s_accepted, s_implemented, s_rejected}
      [] category = "Research" -> {s_draft, s_published, s_obsolete}
      [] category = "Archive" -> {}

\* C6: when the no-frontmatter rule does not fire, the Error "invalid status
\* '<status>' for <category> category" is emitted if and only if status is
\* present and its lower-cased value is not in the valid set of the
\* document's category; an Archive document never gets it.
C6_InvalidStatus ==
    (pc = "validate_frontmatter" /\ ~ RuleOneFires) =>
        LET st == doc.frontmatter.status
            hits == WithFmt(issues, "invalid status '{}' for {} category")
        IN /\ (hits # {}) <=> ( /\ IsSome(st)
                                /\ doc.category # "Archive"
                                /\ ToLowercase(Unwrap(st)) \notin ValidSet(doc.category) )
           /\ \A i \in hits :
                /\ issues[i].severity = "Error"
                /\ issues[i].path = doc.path
                /\ issues[i].message.args =
                      <<ToLowercase(Unwrap(st)), CategoryName(doc.category)>>
           /\ Cardinality(hits) <= 1

\* A Design document declared "PROPOSED" passes, and the check has run.
C6_Witness ==
    /\ pc = "validate_frontmatter"
    /\ doc.category = "Design"
    /\ doc.frontmatter.status = Some(s_PROPOSED)
    /\ WithFmt(issues, "invalid status '{}' for {} category") = {}

\* C7: when the no-frontmatter rule does not fire, Error "missing title" is
\* returned iff title is absent, Warning "missing author" iff author is
\* absent, Warning "missing created date" iff created is absent, each at most
\* once and whatever the other fields are.
C7_UnconditionalRules ==
    (pc = "validate_frontmatter" /\ ~ RuleOneFires) =>
        LET ti == {i \in WithFmt(issues, "missing title") : issues[i].severity = "Error"}
            au == {i \in WithFmt(issues, "missing author") : issues[i].severity = "Warning"}
            cr == {i \in WithFmt(issues, "missing created date") : issues[i].severity = "Warning"}
        IN /\ Cardinality(ti) = (IF doc.frontmatter.title = None THEN 1 ELSE 0)
           /\ Cardinality(au) = (IF doc.frontmatter.author = None THEN 1 ELSE 0)
           /\ Cardinality(cr) = (IF doc.frontmatter.created = None THEN 1 ELSE 0)
           /\ Cardinality(WithFmt(issues, "missing title")) <= 1
           /\ Cardinality(WithFmt(issues, "missing author")) <= 1
           /\ Cardinality(WithFmt(issues, "missing created date")) <= 1

\* Title absent, author present, created absent: two of the three fire.
C7_Witness ==
    /\ pc = "validate_frontmatter"
    /\ doc.frontmatter.title = None
    /\ doc.frontmatter.author # None
    /\ doc.frontmatter.created = None
    /\ WithFmt(issues, "missing title") # {}
    /\ WithFmt(issues, "missing author") = {}
    /\ WithFmt(issues, "missing created date") # {}

\* C8: when the no-frontmatter rule does not fire, Error "design doc missing
\* doc_id" is returned iff the category is Design and doc_id is absent, and
\* Warning "active doc missing next_review" iff the category is Active and
\* next_review is absent.
C8_CategoryRules ==
    (pc = "validate_frontmatter" /\ ~ RuleOneFires) =>
        LET id == {i \in WithFmt(issues, "design doc missing doc_id") : issues[i].severity = "Error"}
            nr == {i \in WithFmt(issues, "active doc missing next_review") :
                      issues[i].severity = "Warning"}
        IN /\ (id # {}) <=> (doc.category = "Design" /\ doc.frontmatter.doc_id = None)
           /\ (nr # {}) <=> (doc.category = "Active" /\ doc.frontmatter.next_review = None)
           /\ WithFmt(issues, "design doc missing doc_id") = id
           /\ WithFmt(issues, "active doc missing next_review") = nr

\* A Research document lacking both doc_id and next_review gets neither issue,
\* while other rules still fire for it.
C8_Witness ==
    /\ pc = "validate_frontmatter"
    /\ doc.category = "Research"
    /\ doc.frontmatter.doc_id = None
    /\ doc.frontmatter.next_review = None
    /\ WithFmt(issues, "missing title") # {}
    /\ WithFmt(issues, "design doc missing doc_id") = {}
    /\ WithFmt(issues, "active doc missing next_review") = {}

\* The documents that have the category and the fields of the validated
\* document, whatever their declared `type` and their path.
SameButType ==
    {Document(p, [doc.frontmatter EXCEPT !.doc_type = ty], doc.body) :
        p \in {q \in ValidatePaths : infer_category(q) = doc.category}, ty \in DocTypes}

\* An issue list without the paths of the issues.
Unpathed(list) ==
    [i \in 1..Len(list) |-> [severity |-> list[i].severity, message |-> list[i].message]]

\* C11: a document's category is infer_category of its own path, and the
\* issues validate_frontmatter returns for it are those it returns for every
\* document of the same category with the same fields other than the
\* declared `type`: the same severities and messages in the same order, and
\* the very same issues when the path is the same too.
C11_RulesByCategory ==
    /\ doc.category = infer_category(doc.path)
    /\ pc = "validate_frontmatter" =>
           \A d \in SameButType :
               /\ Unpathed(validate_frontmatter(d)) = Unpathed(issues)
               /\ d.path = doc.path => validate_frontmatter(d) = issues

\* A document under active/ that declares type design and has no doc_id and
\* no next_review: it is validated by the Active rule, not the Design one.
C11_Witness ==
    /\ pc = "validate_frontmatter"
    /\ doc.category = "Active"
    /\ doc.frontmatter.doc_type = Some(design)
    /\ doc.frontmatter.doc_id = None
    /\ WithFmt(issues, "active doc missing next_review") # {}
    /\ WithFmt(issues, "design doc missing doc_id") = {}

----------------------------------------------------------------------------
\* Specification of check_broken_links

MaxLinks == 2       \* entries of a related_docs list

LinkPaths == <<JoinSegs(<<active, a_md>>, SLASH), JoinSegs(<<design, d_md>>, SLASH)>>

L_exact == JoinSegs(<<active, a_md>>, SLASH)
L_suffix == a_md
L_longer == JoinSegs(<<x_dir, active, a_md>>, SLASH)
L_docs == JoinSegs(<<docs_dir, a_md>>, SLASH)
L_missing == JoinSegs(<<x_dir, n_md>>, SLASH)
L_file == n_txt
L_docs_file == JoinSegs(<<docs_dir, n_txt>>, SLASH)

Links == {L_exact, L_suffix, L_longer, L_docs, L_missing, L_file, L_docs_file}
SingleLinks == {L_exact, L_missing}

OptLinks == {None} \cup {Some(l) : l \in SingleLinks}

\* The referring documents: design/d.md carries the link fields under test,
\* active/a.md is their target and may itself refer to a missing file.
ReferrerFrontmatters ==
    {[DefaultFrontmatter EXCEPT !.related_docs = rd, !.supersedes = su, !.superseded_by = sb] :
        rd \in {None} \cup {Some(l) : l \in UNION {[1..k -> Links] : k \in 0..MaxLinks}},
        su \in OptLinks, sb \in OptLinks}

TargetFrontmatters ==
    {[DefaultFrontmatter EXCEPT !.supersedes = su] : su \in OptLinks}

DiskExtras == {PathJoin(SrvRoot, n_txt)}

InitLinks ==
    /\ tree \in TreesOver(SrvRoot, LinkPaths, <<TargetFrontmatters, ReferrerFrontmatters>>, MaxDocs)
    /\ disk \in {{tree.docs[i].path : i \in 1..Len(tree.docs)} \cup e : e \in SUBSET DiskExtras}
    /\ today = 0
    /\ issues = <<>>
    /\ pc = "init"
    /\ doc = DefaultDoc
    /\ root = <<>>
    /\ rel = <<>>
    /\ catAbs = None
    /\ catRel = None
    /\ NoParse
    /\ NoReport

CheckBrokenLinks ==
    /\ pc = "init"
    /\ issues' = check_broken_links(tree, disk)
    /\ pc' = "check_broken_links"
    /\ UNCHANGED <<tree, disk, today, doc, root, rel, catAbs, catRel>>
    /\ UNCHANGED <<parseVars, reportVars>>

NextLinks == CheckBrokenLinks

SpecLinks == InitLinks /\ [][NextLinks]_vars

\* The root-relative paths of the documents of the tree, separators
\* normalised to '/'.
KnownRel ==
    {ReplaceChar(StripRoot(tree.docs[i].path, tree.root), "\\", "/") : i \in 1..Len(tree.docs)}

OnDisk(l) == PathJoin(tree.root, l) \in disk

Occurrences(list, x) == Cardinality({i \in 1..Len(list) : list[i] = x})

BrokenCount(d, fmt, l) ==
    Cardinality({i \in 1..Len(issues) :
        /\ issues[i].path = d.path
        /\ issues[i].check_type = "BrokenLink"
        /\ issues[i].severity = "Error"
        /\ issues[i].message = [fmt |-> fmt, args |-> <<l>>]})

OptOccurrences(o, l) == IF o = Some(l) THEN 1 ELSE 0

\* Each entry of the three link fields of d that satisfies broken(l) has
\* exactly one BrokenLink Error on d, and each entry equal to the
\* root-relative path of a document of the tree has none.
LinkIssuesMatch(broken(_)) ==
    \A k \in 1..Len(tree.docs) :
        LET d == tree.docs[k]
            rd == IF IsSome(d.frontmatter.related_docs)
                  THEN Unwrap(d.frontmatter.related_docs) ELSE <<>>
        IN \A l \in Links :
            /\ broken(l) =>
                /\ BrokenCount(d, "Broken link: {} does not exist", l) = Occurrences(rd, l)
                /\ BrokenCount(d, "Supersedes target not found: {}", l)
                      = OptOccurrences(d.frontmatter.supersedes, l)
                /\ BrokenCount(d, "Superseded_by target not found: {}", l)
                      = OptOccurrences(d.frontmatter.superseded_by, l)
            /\ l \in KnownRel =>
                /\ BrokenCount(d, "Broken link: {} does not exist", l) = 0
                /\ BrokenCount(d, "Supersedes target not found: {}", l) = 0
                /\ BrokenCount(d, "Superseded_by target not found: {}", l) = 0

\* The link names no document of the tree and no file on disk, with or
\* without a leading docs/.
NotPresent(l) ==
    LET rest == SubSeq(l, Len(docs_dir) + 2, Len(l)) IN
    /\ l \notin KnownRel
    /\ ~ OnDisk(l)
    /\ StartsWith(l, docs_dir \o SLASH) => (rest \notin KnownRel /\ ~ OnDisk(rest))

\* C4 as stated: each related_docs entry, supersedes value or superseded_by
\* value that points at a path not present in the scanned tree and not on
\* disk yields exactly one Error-severity BrokenLink issue on the referring
\* document; an entry equal to the root-relative path of a document of the
\* tree yields none.
C4_NotPresentIsBroken ==
    pc = "check_broken_links" => LinkIssuesMatch(NotPresent)

\* No document path equals the link, ends with it or is a suffix of it, the
\* link is not on disk under the root, and the same holds (without the
\* suffix-of-the-link test) for the link with a leading docs/ removed.
Unresolved(l) ==
    LET rest == SubSeq(l, Len(docs_dir) + 2, Len(l)) IN
    /\ \A p \in KnownRel : p # l /\ ~ EndsWith(p, l) /\ ~ EndsWith(l, p)
    /\ ~ OnDisk(l)
    /\ StartsWith(l, docs_dir \o SLASH) =>
        /\ \A p \in KnownRel : p # rest /\ ~ EndsWith(p, rest)
        /\ ~ OnDisk(rest)

\* C4 amended: each entry that the resolver's rules do not resolve (no known
\* root-relative path equals it, ends with it or is a suffix of it; it does
\* not exist under the root; and, when it starts with docs/, the remainder is
\* neither equal to nor a suffix of a known path nor on disk) yields exactly
\* one Error-severity BrokenLink issue on the referring document; an entry
\* equal to the root-relative path of a document of the tree yields none.
C4_UnresolvedIsBroken ==
    pc = "check_broken_links" => LinkIssuesMatch(Unresolved)

\* A document lists the same missing file twice and supersedes it: three
\* issues on that document, while its link to the other document has none.
C4_Witness ==
    /\ pc = "check_broken_links"
    /\ Len(tree.docs) = 2
    /\ tree.docs[2].frontmatter.related_docs = Some(<<L_missing, L_missing>>)
    /\ tree.docs[2].frontmatter.supersedes = Some(L_missing)
    /\ tree.docs[2].frontmatter.superseded_by = Some(L_exact)
    /\ Len(issues) = 3
    /\ \A i \in 1..3 : issues[i].path = tree.docs[2].path

----------------------------------------------------------------------------
\* The health check of a scanned collection: check_frontmatter, the
\* aggregator, the rendering of the report and the `check` command

ReportPaths == <<JoinSegs(<<active, a_md>>, SLASH), JoinSegs(<<design, d_md>>, SLASH)>>

\* An Active document no check has anything to say about on day 0.
CleanActive ==
    [DefaultFrontmatter EXCEPT !.title = Some(<<"T">>), !.author = Some(<<"a">>),
                               !.created = Some(0), !.status = Some(active),
                               !.tags = Some(<<>>), !.last_updated = Some(0),
                               !.next_review = Some(MaxDocDate)]

ReportActiveFrontmatters ==
    {CleanActive,
     DefaultFrontmatter,
     [CleanActive EXCEPT !.next_review = None],
     [CleanActive EXCEPT !.related_docs = Some(<<L_missing>>)],
     [CleanActive EXCEPT !.status = Some(s_No_Frontmatter)],
     [CleanActive EXCEPT !.title = None, !.status = Some(s_bogus)]}

\* A Design document no check has anything to say about.
CleanDesign ==
    [DefaultFrontmatter EXCEPT !.title = Some(<<"T">>), !.author = Some(<<"a">>),
                               !.created = Some(0), !.status = Some(s_proposed),
                               !.tags = Some(<<>>), !.doc_id = Some(1)]

ReportDesignFrontmatters ==
    {CleanDesign,
     DefaultFrontmatter,
     [CleanDesign EXCEPT !.status = Some(s_Accepted)],
     [CleanDesign EXCEPT !.status = Some(s_implemented)],
     [CleanDesign EXCEPT !.status = Some(s_Accepted), !.doc_id = None,
                         !.superseded_by = Some(L_missing)],
     [CleanDesign EXCEPT !.status = Some(s_No_Frontmatter)]}

\* The clock: a day on which no review is overdue, and a day on which the
\* review of CleanActive is.
ReportTodayVals == {0, MaxDocDate + 1}

\* The state after DocTree::scan.
InitReport ==
    /\ tree \in TreesOver(SrvRoot, ReportPaths,
                          <<ReportActiveFrontmatters, ReportDesignFrontmatters>>, MaxDocs)
    /\ disk = {tree.docs[i].path : i \in 1..Len(tree.docs)}
    /\ today \in ReportTodayVals
    /\ issues = <<>>
    /\ pc = "scan"
    /\ doc = DefaultDoc
    /\ root = <<>>
    /\ rel = <<>>
    /\ catAbs = None
    /\ catRel = None
    /\ NoParse
    /\ NoReport

CheckFrontmatter ==
    /\ pc = "scan"
    /\ issues' = check_frontmatter(tree)
    /\ pc' = "check_frontmatter"
    /\ UNCHANGED <<tree, disk, today, doc, root, rel, catAbs, catRel>>
    /\ UNCHANGED <<parseVars, reportVars>>

RunAllChecks ==
    /\ pc = "scan"
    /\ report' = run_all_checks_with_date(tree, disk, today)
    /\ pc' = "run_all_checks"
    /\ UNCHANGED <<tree, disk, today, issues, doc, root, rel, catAbs, catRel>>
    /\ UNCHANGED <<parseVars, text, stdout, exit_code>>

FormatReport ==
    /\ pc = "run_all_checks"
    /\ text' = format_report(report)
    /\ pc' = "format_report"
    /\ UNCHANGED <<tree, disk, today, issues, doc, root, rel, catAbs, catRel>>
    /\ UNCHANGED <<parseVars, report, stdout, exit_code>>

\* cmd_check: run_all_checks reads the date off the clock, the report is
\* printed, and the process ends with 1 on errors and with 0 otherwise.
CmdCheck ==
    /\ pc = "scan"
    /\ report' = run_all_checks_with_date(tree, disk, today)
    /\ text' = format_report(report')
    /\ stdout' = stdout \o text'
    /\ exit_code' = Some(CheckExitCode(report'))
    /\ pc' = "cmd_check"
    /\ UNCHANGED <<tree, disk, today, issues, doc, root, rel, catAbs, catRel>>
    /\ UNCHANGED parseVars

NextReport == CheckFrontmatter \/ RunAllChecks \/ FormatReport \/ CmdCheck

SpecReport == InitReport /\ [][NextReport]_vars

\* The position of the document with path p in the scan order.
DocIndex(p) == CHOOSE i \in 1..Len(tree.docs) : tree.docs[i].path = p

\* The place of a check in the aggregator's order.
CheckRank(check_type) ==
    CASE check_type = "Stale" -> 1
      [] check_type = "Orphan" -> 2
      [] check_type = "BrokenLink" -> 3
      [] check_type \in {"MissingFrontmatter", "InvalidMetadata"} -> 4

\* C12: the report of the aggregator lists the issues of the stale, orphan,
\* broken-link and frontmatter checks, computed with the report's reference
\* date, in that order and inside each check in document scan order;
\* docs_checked is the number of documents and timestamp the reference date.
C12_Aggregate ==
    pc = "run_all_checks" =>
        /\ report.issues = check_stale(tree, today) \o check_orphans_with_date(tree, today)
                           \o check_broken_links(tree, disk) \o check_frontmatter(tree)
        /\ report.docs_checked = Len(tree.docs)
        /\ report.timestamp = today
        /\ \A i, j \in 1..Len(report.issues) :
               i < j =>
                   /\ CheckRank(report.issues[i].check_type)
                          <= CheckRank(report.issues[j].check_type)
                   /\ CheckRank(report.issues[i].check_type)
                          = CheckRank(report.issues[j].check_type)
                      => DocIndex(report.issues[i].path) <= DocIndex(report.issues[j].path)

\* A report of two documents with issues of all four checks, the frontmatter
\* check having issues on both documents.
C12_Witness ==
    /\ pc = "run_all_checks"
    /\ report.docs_checked = 2
    /\ report.timestamp = MaxDocDate + 1
    /\ \A r \in 1..4 : \E i \in 1..Len(report.issues) :
           CheckRank(report.issues[i].check_type) = r
    /\ \A d \in 1..2 : \E i \in 1..Len(report.issues) :
           /\ CheckRank(report.issues[i].check_type) = 4
           /\ report.issues[i].path = tree.docs[d].path

\* The positions of the report's issues of one severity.
SeverityIndices(sev) == {i \in 1..Len(report.issues) : report.issues[i].severity = sev}

\* C13: error_count, warning_count and info_count of a report are the
\* numbers of its issues of severity Error, Warning and Info, and sum to the
\* length of the issue list; has_errors holds iff error_count > 0 and
\* has_warnings iff warning_count > 0.  The counts line of the rendered
\* report carries the same three numbers.
C13_Counts ==
    /\ error_count(report) = Cardinality(SeverityIndices("Error"))
    /\ warning_count(report) = Cardinality(SeverityIndices("Warning"))
    /\ info_count(report) = Cardinality(SeverityIndices("Info"))
    /\ error_count(report) + warning_count(report) + info_count(report) = Len(report.issues)
    /\ has_errors(report) <=> error_count(report) > 0
    /\ has_warnings(report) <=> warning_count(report) > 0
    /\ pc = "format_report" =>
           text[4].args = <<Cardinality(SeverityIndices("Error")),
                            Cardinality(SeverityIndices("Warning")),
                            Cardinality(SeverityIndices("Info"))>>

\* A rendered report with warnings and an Info issue and no error.
C13_Witness ==
    /\ pc = "format_report"
    /\ ~ has_errors(report)
    /\ has_warnings(report)
    /\ warning_count(report) >= 2
    /\ info_count(report) >= 1

\* The lines of the rendered report that print an issue, and the place of
\* such a line among them.
LineIdx == {k \in 1..Len(text) : text[k].fmt = "  [{}] {}: {}"}

Ordinal(k) == Cardinality({h \in LineIdx : h <= k})

SeverityRank(sev) ==
    CASE sev = "Error" -> 1
      [] sev = "Warning" -> 2
      [] sev = "Info" -> 3

HeaderOf(sev) ==
    CASE sev = "Error" -> "ERRORS:"
      [] sev = "Warning" -> "WARNINGS:"
      [] sev = "Info" -> "INFO:"

\* The place the i-th issue of the report has once the issues are grouped
\* by severity, each group keeping the order of the report.
GroupedPos(i) ==
    Cardinality({j \in 1..Len(report.issues) :
        \/ SeverityRank(report.issues[j].severity) < SeverityRank(report.issues[i].severity)
        \/ /\ report.issues[j].severity = report.issues[i].severity
           /\ j <= i})

HeadersBefore(k) == {h \in 1..(k - 1) : text[h].fmt \in {"ERRORS:", "WARNINGS:", "INFO:"}}

\* C14: the text of format_report has one line "  [check_type] path: message"
\* per issue of the report and no other such line; the lines are grouped
\* Errors, Warnings, Info, each group in the order of the report and under
\* the header of its severity; the header of a severity is printed once when
\* the report has an issue of that severity and not at all otherwise.
C14_FormatReport ==
    pc = "format_report" =>
        /\ Cardinality(LineIdx) = Len(report.issues)
        /\ \A i \in 1..Len(report.issues) :
               \E k \in LineIdx :
                   /\ Ordinal(k) = GroupedPos(i)
                   /\ text[k].args = <<CheckTypeName(report.issues[i].check_type),
                                        report.issues[i].path, report.issues[i].message>>
                   /\ HeadersBefore(k) # {}
                   /\ \E h \in HeadersBefore(k) :
                          /\ \A g \in HeadersBefore(k) : g <= h
                          /\ text[h].fmt = HeaderOf(report.issues[i].severity)
        /\ \A sev \in {"Error", "Warning", "Info"} :
               Cardinality({k \in 1..Len(text) : text[k].fmt = HeaderOf(sev)})
                   = IF SeverityIndices(sev) = {} THEN 0 ELSE 1

\* A rendered report whose first issue is a Warning and which has an Error
\* after it and no Info issue: the Error is printed first, no INFO: header.
C14_Witness ==
    /\ pc = "format_report"
    /\ Len(report.issues) >= 2
    /\ report.issues[1].severity = "Warning"
    /\ SeverityIndices("Error") # {}
    /\ SeverityIndices("Info") = {}
    /\ text[6].fmt = "ERRORS:"
    /\ \E k \in 1..Len(text) : text[k].fmt = "WARNINGS:"

\* C15: when `docman check` has ended, its exit code is 1 if the report has
\* an issue of severity Error and 0 otherwise, whatever the number of
\* Warning and Info issues, and the rendered report is on standard output;
\* nothing has ended the process before the report was printed.
C15_ExitCode ==
    /\ pc = "cmd_check" =>
           /\ exit_code = Some(IF SeverityIndices("Error") # {} THEN 1 ELSE 0)
           /\ report.issues = check_stale(tree, today) \o check_orphans_with_date(tree, today)
                              \o check_broken_links(tree, disk) \o check_frontmatter(tree)
           /\ stdout = format_report(report)
    /\ exit_code # None => pc = "cmd_check" /\ Len(stdout) >= 4

\* A run that ends with 0 on a report with Warning and Info issues only.
C15_Witness ==
    /\ pc = "cmd_check"
    /\ exit_code = Some(0)
    /\ SeverityIndices("Warning") # {}
    /\ SeverityIndices("Info") # {}
    /\ \E k \in 1..Len(stdout) : stdout[k].fmt = "WARNINGS:"

\* What validate_frontmatter returns for the documents of a list, one
\* document after the other.
RECURSIVE ValidatorIssues(_)
ValidatorIssues(docs) ==
    IF docs = <<>> THEN <<>>
    ELSE validate_frontmatter(Head(docs)) \o ValidatorIssues(Tail(docs))

\* C16: check_frontmatter returns, in scan order, the issues of
\* validate_frontmatter with path, severity and message unchanged; the issue
\* "no frontmatter found" is tagged MissingFrontmatter and every other issue,
\* an invalid status of any text included, is tagged InvalidMetadata.
C16_Retag ==
    pc = "check_frontmatter" =>
        LET expected == ValidatorIssues(tree.docs) IN
        /\ Len(issues) = Len(expected)
        /\ \A k \in 1..Len(expected) :
               /\ issues[k].path = expected[k].path
               /\ issues[k].severity = expected[k].severity
               /\ issues[k].message = expected[k].message
               /\ issues[k].check_type =
                      IF expected[k].message.fmt = "no frontmatter found"
                      THEN "MissingFrontmatter" ELSE "InvalidMetadata"

----------------------------------------------------------------------------
\* Extraction and parsing of one file

MaxRest == 6    \* characters of the file after its first line

ParseChars == {"-", LF, CR, "a"}

\* The first line of the file: none, or the opening delimiter in its two forms.
Openings == {<<>>, dashes \o <<LF>>, dashes \o <<CR, LF>>}

Texts == {op \o r : op \in Openings, r \in UNION {[1..n -> ParseChars] : n \in 0..MaxRest}}

ParsePath == PathJoin(SrvRoot, JoinSegs(<<design, d_md>>, SLASH))

InitParse ==
    /\ files \in {[p \in {ParsePath} |-> t] : t \in Texts}
    /\ yaml_text = <<>>
    /\ extracted = None
    /\ parsed = None
    /\ resolved = None
    /\ pc = "init"
    /\ tree = DefaultTree
    /\ disk = {}
    /\ today = 0
    /\ issues = <<>>
    /\ doc = DefaultDoc
    /\ root = <<>>
    /\ rel = <<>>
    /\ catAbs = None
    /\ catRel = None
    /\ NoReport

ExtractFrontmatter ==
    /\ pc = "init"
    /\ extracted' = extract_frontmatter(files[ParsePath])
    /\ pc' = "extract_frontmatter"
    /\ UNCHANGED <<tree, disk, today, issues, doc, root, rel, catAbs, catRel>>
    /\ UNCHANGED <<files, yaml_text, parsed, resolved, reportVars>>

ParseDocument ==
    /\ pc = "init"
    /\ \E r \in parse_document(ParsePath, files) : parsed' = Some(r)
    /\ pc' = "parse_document"
    /\ UNCHANGED <<tree, disk, today, issues, doc, root, rel, catAbs, catRel>>
    /\ UNCHANGED <<files, yaml_text, extracted, resolved, reportVars>>

NextParse == ExtractFrontmatter \/ ParseDocument

SpecParse == InitParse /\ [][NextParse]_vars

\* The text begins with the opening delimiter line.
HasOpening(t) == StartsWith(t, dashes \o <<LF>>) \/ StartsWith(t, dashes \o <<CR, LF>>)

AfterOpening(t) ==
    IF StartsWith(t, dashes \o <<LF>>) THEN SubSeq(t, 5, Len(t)) ELSE SubSeq(t, 6, Len(t))

\* There is a closing delimiter line at offset k of s: a `---` at the start
\* of a line that is followed by \n, by \r\n or by the end of the input.
DelimiterAt(s, k) ==
    /\ k + 3 <= Len(s)
    /\ SubSeq(s, k + 1, k + 3) = dashes
    /\ k = 0 \/ s[k] = LF
    /\ \/ k + 3 = Len(s)
       \/ s[k + 4] = LF
       \/ k + 5 <= Len(s) /\ s[k + 4] = CR /\ s[k + 5] = LF

Delimiters(s) == {k \in 0..Len(s) : DelimiterAt(s, k)}

FirstDelimiter(s) == CHOOSE k \in Delimiters(s) : \A h \in Delimiters(s) : k <= h

\* s with at most one leading newline (\n or \r\n) removed.
WithoutLeadingNewline(s) ==
    IF StartsWith(s, <<LF>>) THEN SubSeq(s, 2, Len(s))
    ELSE IF StartsWith(s, <<CR, LF>>) THEN SubSeq(s, 3, Len(s))
    ELSE s

\* C17: for a text that does not begin with the opening delimiter line, or
\* begins with it and has no closing delimiter line, extract_frontmatter
\* returns None and parse_document succeeds with every frontmatter field
\* absent and the whole text as body.
C17_NoBlockIsNoError ==
    LET t == files[ParsePath] IN
    (~ HasOpening(t) \/ Delimiters(AfterOpening(t)) = {}) =>
        /\ pc = "extract_frontmatter" => extracted = None
        /\ pc = "parse_document" =>
               parsed = Some(Ok([path |-> ParsePath, frontmatter |-> DefaultFrontmatter,
                                 category |-> "Design", body |-> t]))

\* C18: for a text that begins with the opening delimiter, the block ends at
\* the first later `---` that is at the start of a line and followed by \n,
\* \r\n or the end of the input, and at no other `---`; the payload is the
\* text between the delimiters and the body the text after the closing one
\* less one leading newline.
C18_ClosingDelimiter ==
    LET t == files[ParsePath] IN
    (pc = "extract_frontmatter" /\ HasOpening(t)) =>
        IF Delimiters(AfterOpening(t)) = {} THEN extracted = None
        ELSE LET rest == AfterOpening(t)
                 k == FirstDelimiter(rest)
             IN extracted = Some(<<SubSeq(rest, 1, k),
                                   WithoutLeadingNewline(SubSeq(rest, k + 4, Len(rest)))>>)

\* C28: extract_frontmatter is a lossless split: whenever it returns
\* (yaml, body), the text is the opening delimiter line, yaml, `---`, at most
\* one newline (\n or \r\n) and body, in that order with nothing else
\* between, and no line of yaml is itself a closing delimiter.
C28_LosslessSplit ==
    (pc = "extract_frontmatter" /\ IsSome(extracted)) =>
        LET yaml == Unwrap(extracted)[1]
            body == Unwrap(extracted)[2]
        IN /\ \E op \in {dashes \o <<LF>>, dashes \o <<CR, LF>>} :
                \E nl \in {<<>>, <<LF>>, <<CR, LF>>} :
                    files[ParsePath] = op \o yaml \o dashes \o nl \o body
           /\ Delimiters(yaml) = {}

\* A text was split into a payload of one line, the closing delimiter with
\* its newline, and a body.
C28_Witness ==
    /\ pc = "extract_frontmatter"
    /\ IsSome(extracted)
    /\ Unwrap(extracted)[1] # <<>>
    /\ Len(files[ParsePath])
          = 4 + Len(Unwrap(extracted)[1]) + 3 + 1 + Len(Unwrap(extracted)[2])

----------------------------------------------------------------------------
\* The scan of a directory, and the checks on what it found

\* File texts: no frontmatter, a title, an invalid status, and two payloads
\* that do not deserialize (a bare scalar, a date field given a word).
T_bare == <<"#">>
T_titled == <<"-","-","-","\n","t","i","t","l","e",":"," ","T","\n","-","-","-","\n","#">>
T_bogus == <<"-","-","-","\n","s","t","a","t","u","s",":"," ","b","o","g","u","s","\n","-","-","-","\n">>
T_scalar == <<"-","-","-","\n","t","i","t","l","e","\n","-","-","-","\n","#">>
T_baddate == <<"-","-","-","\n","c","r","e","a","t","e","d",":"," ","x","\n","-","-","-","\n">>

ScanTexts == {T_bare, T_titled, T_bogus, T_scalar, T_baddate}

ScanPaths ==
    {PathJoin(SrvRoot, JoinSegs(<<active, a_md>>, SLASH)),
     PathJoin(SrvRoot, JoinSegs(<<design, d_md>>, SLASH)),
     PathJoin(SrvRoot, n_txt)}

InitScan ==
    /\ files \in UNION {[S -> ScanTexts] : S \in SUBSET ScanPaths}
    /\ root = SrvRoot
    /\ disk = DOMAIN files
    /\ today = 0
    /\ tree = DefaultTree
    /\ pc = "init"
    /\ issues = <<>>
    /\ doc = DefaultDoc
    /\ rel = <<>>
    /\ catAbs = None
    /\ catRel = None
    /\ yaml_text = <<>>
    /\ extracted = None
    /\ parsed = None
    /\ resolved = None
    /\ NoReport

Scan ==
    /\ pc = "init"
    /\ tree' \in scan(root, files)
    /\ pc' = "scan"
    /\ UNCHANGED <<disk, today, issues, doc, root, rel, catAbs, catRel>>
    /\ UNCHANGED <<parseVars, reportVars>>

NextScan == Scan \/ RunAllChecks

SpecScan == InitScan /\ [][NextScan]_vars

\* The markdown files under the scan root, and those of them whose
\* frontmatter does not parse.
MarkdownFiles == {f \in DOMAIN files : StartsWith(f, root \o SLASH) /\ EndsWith(f, md_ext)}

FailingFiles == {f \in MarkdownFiles : \A res \in parse_document(f, files) : ~ res.ok}

\* C19: after a scan, every markdown file whose frontmatter fails to parse
\* is in the tree's error list under its path and is not a document, and
\* every other markdown file is a document; the report built from the tree
\* has no issue on a failing file and counts the other files only.
C19_PartialFailure ==
    /\ pc \in {"scan", "run_all_checks"} =>
           /\ \A f \in FailingFiles :
                  /\ \E e \in 1..Len(tree.errors) : tree.errors[e].path = f
                  /\ \A d \in 1..Len(tree.docs) : tree.docs[d].path # f
           /\ \A f \in MarkdownFiles \ FailingFiles :
                  \E d \in 1..Len(tree.docs) : tree.docs[d].path = f
           /\ Len(tree.docs) + Len(tree.errors) = Cardinality(MarkdownFiles)
    /\ pc = "run_all_checks" =>
           /\ \A i \in 1..Len(report.issues) : report.issues[i].path \notin FailingFiles
           /\ report.docs_checked = Cardinality(MarkdownFiles \ FailingFiles)

\* Two markdown files, the first of which fails to parse: the second one is
\* scanned, counted and reported on.
C19_Witness ==
    /\ pc = "run_all_checks"
    /\ Cardinality(MarkdownFiles) = 2
    /\ Len(tree.errors) = 1
    /\ tree.errors[1].path = PathJoin(SrvRoot, JoinSegs(<<active, a_md>>, SLASH))
    /\ report.docs_checked = 1
    /\ \E i \in 1..Len(report.issues) : report.issues[i].path = tree.docs[1].path

----------------------------------------------------------------------------
\* Serialization round trip (dm-meta, test roundtrip_serialization)

MaxTags == 2

RoundTripStrings == {<<>>, <<"T">>, yaml_null, <<"~">>}
RoundTripTags ==
    {None} \cup {Some(l) : l \in UNION {[1..n -> {<<>>, <<"a">>, yaml_null}] : n \in 0..MaxTags}}

RoundTripFrontmatters ==
    {[DefaultFrontmatter EXCEPT !.title = t, !.status = st, !.created = c,
                                !.tags = tg, !.doc_id = id] :
        t \in {None} \cup {Some(x) : x \in RoundTripStrings},
        st \in {None, Some(active)},
        c \in OptDates,
        tg \in RoundTripTags,
        id \in {None, Some(1)}}

InitRoundTrip ==
    /\ doc \in {Document(ParsePath, fm, <<>>) : fm \in RoundTripFrontmatters}
    /\ pc = "init"
    /\ tree = DefaultTree
    /\ disk = {}
    /\ today = 0
    /\ issues = <<>>
    /\ root = <<>>
    /\ rel = <<>>
    /\ catAbs = None
    /\ catRel = None
    /\ NoParse
    /\ NoReport

\* let yaml = serde_yaml::to_string(&fm)
SerializeYaml ==
    /\ pc = "init"
    /\ yaml_text' = to_yaml(doc.frontmatter)
    /\ pc' = "to_string"
    /\ UNCHANGED <<tree, disk, today, issues, doc, root, rel, catAbs, catRel>>
    /\ UNCHANGED <<files, extracted, parsed, resolved, reportVars>>

\* let parsed = parse_frontmatter(&yaml)
ParseFrontmatter ==
    /\ pc = "to_string"
    /\ \E r \in parse_frontmatter(yaml_text) : parsed' = Some(r)
    /\ pc' = "parse_frontmatter"
    /\ UNCHANGED <<tree, disk, today, issues, doc, root, rel, catAbs, catRel>>
    /\ UNCHANGED <<files, yaml_text, extracted, resolved, reportVars>>

NextRoundTrip == SerializeYaml \/ ParseFrontmatter

SpecRoundTrip == InitRoundTrip /\ [][NextRoundTrip]_vars

----------------------------------------------------------------------------
\* References: the orphan check and the broken-link check on one tree

RefPaths == <<JoinSegs(<<active, a_md>>, SLASH), JoinSegs(<<design, d_md>>, SLASH),
              JoinSegs(<<research, n_md>>, SLASH), JoinSegs(<<archive, n_md>>, SLASH)>>

R_rel == JoinSegs(<<design, d_md>>, SLASH)
R_name == d_md
R_inner == design
R_docs_rel == JoinSegs(<<docs_dir, design, d_md>>, SLASH)
R_abs == SLASH \o JoinSegs(<<srv, design, d_md>>, SLASH)
R_docs_x == JoinSegs(<<docs_dir, x_dir, design, d_md>>, SLASH)
R_docs_file == JoinSegs(<<docs_dir, x_dir, n_md>>, SLASH)
R_missing == JoinSegs(<<x_dir, a_md>>, SLASH)

RefLinks == {R_rel, R_name, R_inner, R_docs_rel, R_abs, R_docs_x, R_docs_file, R_missing}

RefActiveFrontmatters ==
    {[DefaultFrontmatter EXCEPT !.related_docs = rd] :
        rd \in {None} \cup {Some(<<l>>) : l \in RefLinks}}

RefDesignFrontmatters ==
    {[DefaultFrontmatter EXCEPT !.status = Some(st), !.related_docs = rd] :
        st \in {s_implemented, s_proposed}, rd \in {None, Some(<<R_rel>>)}}

RefOtherFrontmatters ==
    {[DefaultFrontmatter EXCEPT !.related_docs = rd] : rd \in {None, Some(<<R_rel>>)}}

RefRoots == {SrvRoot, docs_dir}

InitReferences ==
    /\ root \in RefRoots
    /\ tree \in TreesOver(root, RefPaths,
                          <<RefActiveFrontmatters, RefDesignFrontmatters,
                            RefOtherFrontmatters, RefOtherFrontmatters>>, MaxDocs)
    /\ disk \in {{tree.docs[i].path : i \in 1..Len(tree.docs)} \cup e :
                    e \in SUBSET {PathJoin(root, JoinSegs(<<x_dir, n_md>>, SLASH))}}
    /\ today = 0
    /\ pc = "scan"
    /\ issues = <<>>
    /\ doc = DefaultDoc
    /\ rel = <<>>
    /\ catAbs = None
    /\ catRel = None
    /\ NoParse
    /\ NoReport

NextReferences == RunAllChecks

SpecReferences == InitReferences /\ [][NextReferences]_vars

\* The entries of the related_docs of the Active documents of the tree.
ActiveEntries ==
    UNION {{RelatedDocs(tree.docs[a])[r] : r \in 1..Len(RelatedDocs(tree.docs[a]))} :
              a \in {i \in 1..Len(tree.docs) : tree.docs[i].category = "Active"}}

UnreferencedInfo(d) ==
    {i \in 1..Len(report.issues) :
        /\ report.issues[i].path = d.path
        /\ report.issues[i].check_type = "Orphan"
        /\ report.issues[i].severity = "Info"
        /\ report.issues[i].message
              = Msg("Implemented design doc not referenced by any active doc", <<>>)}

\* C24: a Design document whose lower-cased status is "implemented" gets the
\* Orphan Info "Implemented design doc not referenced by any active doc" if
\* and only if no entry of the related_docs of an Active document is a
\* substring of the document's path string or contains it; the related_docs
\* of Design, Research and Archive documents do not count.
C24_Unreferenced ==
    pc = "run_all_checks" =>
        \A k \in 1..Len(tree.docs) :
            LET d == tree.docs[k]
            IN (d.category = "Design" /\ StatusLower(d) = s_implemented) =>
                /\ Cardinality(UnreferencedInfo(d)) <= 1
                /\ (UnreferencedInfo(d) # {}) <=>
                      ~ \E e \in ActiveEntries : StrContains(d.path, e) \/ StrContains(e, d.path)

\* An implemented design document that only a Research document (or only
\* itself) refers to was reported as unreferenced.
C24_Witness ==
    /\ pc = "run_all_checks"
    /\ \E j, k \in 1..Len(tree.docs) :
        /\ tree.docs[j].category = "Design"
        /\ StatusLower(tree.docs[j]) = s_implemented
        /\ tree.docs[k].category = "Research"
        /\ tree.docs[k].frontmatter.related_docs = Some(<<R_rel>>)
        /\ UnreferencedInfo(tree.docs[j]) # {}

\* Rule (a) of the resolver for link l against the root-relative path p.
RuleA(l, p) == p = l \/ EndsWith(p, l) \/ EndsWith(l, p)

\* Rules (a) and (b) of the resolver for link l on the tree and the disk.
RuleAB(l) == (\E p \in KnownRel : RuleA(l, p)) \/ OnDisk(l)

\* The resolver as specified: (a), (b), or for a link starting with docs/
\* the whole of (a) and (b) again on the link without that prefix.
Resolved(l) ==
    \/ RuleAB(l)
    \/ /\ StartsWith(l, docs_dir \o SLASH)
       /\ RuleAB(SubSeq(l, Len(docs_dir) + 2, Len(l)))

BrokenRelatedIssues(d, l) ==
    {i \in 1..Len(report.issues) :
        /\ report.issues[i].path = d.path
        /\ report.issues[i].check_type = "BrokenLink"
        /\ report.issues[i].message = Msg("Broken link: {} does not exist", <<l>>)}

\* C27: a related_docs entry is reported broken exactly when the resolver as
\* specified, with the full retry of rules (a) and (b) on the link without
\* its docs/ prefix, does not resolve it: the retry of the code, which leaves
\* out "the stripped link ends with p", accepts the same links.
C27_FullRetry ==
    pc = "run_all_checks" =>
        \A k \in 1..Len(tree.docs) :
            \A r \in 1..Len(RelatedDocs(tree.docs[k])) :
                LET l == RelatedDocs(tree.docs[k])[r]
                IN (BrokenRelatedIssues(tree.docs[k], l) = {}) <=> Resolved(l)

\* The link docs/x/design/d.md, which only "the stripped link ends with p"
\* resolves in the retry, was checked with design/d.md in the tree and was
\* not reported.
C27_Witness ==
    /\ pc = "run_all_checks"
    /\ R_rel \in KnownRel
    /\ ~ OnDisk(R_docs_x)
    /\ ~ OnDisk(SubSeq(R_docs_x, Len(docs_dir) + 2, Len(R_docs_x)))
    /\ \E k \in 1..Len(tree.docs) :
        /\ tree.docs[k].frontmatter.related_docs = Some(<<R_docs_x>>)
        /\ BrokenRelatedIssues(tree.docs[k], R_docs_x) = {}

\* C29: when an entry of the related_docs of an Active document resolves by
\* rule (a) against the root-relative path of an implemented Design document,
\* the orphan check does not report that document as unreferenced, whatever
\* the scan root.
C29_SameReference ==
    pc = "run_all_checks" =>
        \A k \in 1..Len(tree.docs) :
            LET d == tree.docs[k]
            IN ( /\ d.category = "Design"
                 /\ StatusLower(d) = s_implemented
                 /\ \E e \in ActiveEntries :
                        RuleA(e, ReplaceChar(StripRoot(d.path, tree.root), "\\", "/")) )
               => UnreferencedInfo(d) = {}

----------------------------------------------------------------------------
\* The public entry points of dm-checks: the caller holds a reference date
\* (today); check_orphans and run_all_checks take no date and read
\* chrono::Local::now(), check_broken_links looks for files on disk.

EntryActiveFrontmatters ==
    {[DefaultFrontmatter EXCEPT !.related_docs = rd] : rd \in {None, Some(<<L_file>>)}}

EntryDesignFrontmatters ==
    {[DefaultFrontmatter EXCEPT !.status = Some(s_accepted), !.decision_date = Some(0),
                                !.implementation_pr = pr] : pr \in {None, Some(7)}}

\* The dates the system clock can show during a run.
ClockVals == OrphanTodayVals

InitEntry ==
    /\ tree \in TreesOver(SrvRoot, OrphanPaths,
                          <<EntryActiveFrontmatters, EntryDesignFrontmatters>>, MaxDocs)
    /\ disk \in {{tree.docs[i].path : i \in 1..Len(tree.docs)} \cup e : e \in SUBSET DiskExtras}
    /\ today \in OrphanTodayVals
    /\ issues = <<>>
    /\ pc = "init"
    /\ doc = DefaultDoc
    /\ root = <<>>
    /\ rel = <<>>
    /\ catAbs = None
    /\ catRel = None
    /\ NoParse
    /\ NoReport

\* pub fn check_orphans(tree)
CheckOrphansNow ==
    /\ pc = "init"
    /\ \E now \in ClockVals : issues' = check_orphans_with_date(tree, now)
    /\ pc' = "check_orphans"
    /\ UNCHANGED <<tree, disk, today, doc, root, rel, catAbs, catRel>>
    /\ UNCHANGED <<parseVars, reportVars>>

\* pub fn run_all_checks(tree)
RunAllChecksNow ==
    /\ pc = "init"
    /\ \E now \in ClockVals : report' = run_all_checks_with_date(tree, disk, now)
    /\ pc' = "run_all_checks"
    /\ UNCHANGED <<tree, disk, today, issues, doc, root, rel, catAbs, catRel>>
    /\ UNCHANGED <<parseVars, text, stdout, exit_code>>

NextEntry == CheckStale \/ CheckOrphansNow \/ CheckBrokenLinks \/ RunAllChecksNow

SpecEntry == InitEntry /\ [][NextEntry]_vars

\* The file systems the tree can stand in.
EntryDisks ==
    {{tree.docs[i].path : i \in 1..Len(tree.docs)} \cup e : e \in SUBSET DiskExtras}

\* C25: what each health check entry point and the aggregate run return is
\* determined by the collection and the reference date the caller holds: it
\* is what the check computes for that date, on any file system.
C25_Deterministic ==
    /\ pc = "check_stale" => issues = check_stale(tree, today)
    /\ pc = "check_orphans" => issues = check_orphans_with_date(tree, today)
    /\ pc = "check_broken_links" =>
          \A dsk \in EntryDisks : issues = check_broken_links(tree, dsk)
    /\ pc = "run_all_checks" =>
          \A dsk \in EntryDisks : report = run_all_checks_with_date(tree, dsk, today)

----------------------------------------------------------------------------
\* Specification of resolve_status

ResolvePaths == <<JoinSegs(<<active, a_md>>, SLASH), JoinSegs(<<design, d_md>>, SLASH),
                  JoinSegs(<<research, n_md>>, SLASH), JoinSegs(<<archive, n_md>>, SLASH)>>

ResolveStatuses ==
    {None} \cup {Some(x) : x \in VALID_ACTIVE_STATUSES \cup VALID_DESIGN_STATUSES
                                 \cup VALID_RESEARCH_STATUSES
                                 \cup {s_archived, s_Accepted, s_Draft, s_PROPOSED, s_bogus, <<>>}}

InitResolve ==
    /\ doc \in {Document(PathJoin(SrvRoot, ResolvePaths[i]),
                         [DefaultFrontmatter EXCEPT !.status = st], TextBody) :
                   i \in 1..Len(ResolvePaths), st \in ResolveStatuses}
    /\ pc = "init"
    /\ tree = DefaultTree
    /\ disk = {}
    /\ today = 0
    /\ issues = <<>>
    /\ root = <<>>
    /\ rel = <<>>
    /\ catAbs = None
    /\ catRel = None
    /\ NoParse
    /\ NoReport

ResolveStatus ==
    /\ pc = "init"
    /\ resolved' = Some(resolve_status(doc.frontmatter, doc.category))
    /\ pc' = "resolve_status"
    /\ UNCHANGED <<tree, disk, today, issues, doc, root, rel, catAbs, catRel>>
    /\ UNCHANGED <<files, yaml_text, extracted, parsed, reportVars>>

NextResolve == ResolveStatus

SpecResolve == InitResolve /\ [][NextResolve]_vars

\* The statuses valid for a category, and its default.
ValidFor(category) ==
    CASE category = "Active" -> VALID_ACTIVE_STATUSES
      [] category = "Design" -> VALID_DESIGN_STATUSES
      [] category = "Research" -> VALID_RESEARCH_STATUSES
      [] category = "Archive" -> {}

DefaultFor(category) ==
    CASE category = "Active" -> active
      [] category = "Design" -> s_proposed
      [] category = "Research" -> s_draft
      [] category = "Archive" -> s_archived

\* C26: resolve_status returns the declared status, lower-cased, when that is
\* a valid status of the document's category, and the category's default
\* otherwise (active, proposed, draft); for Archive always "archived".  The
\* result is a valid status of the category or "archived".
C26_ResolveStatus ==
    pc = "resolve_status" =>
        LET declared == doc.frontmatter.status
            lower == ToLowercase(IF IsSome(declared) THEN Unwrap(declared) ELSE <<>>)
        IN /\ resolved = Some(IF doc.category # "Archive" /\ lower \in ValidFor(doc.category)
                              THEN lower ELSE DefaultFor(doc.category))
           /\ Unwrap(resolved) \in ValidFor(doc.category) \cup {s_archived}
           /\ doc.category = "Archive" => resolved = Some(s_archived)

\* A Design document declared "Accepted" resolved to "accepted".
C26_Witness ==
    /\ pc = "resolve_status"
    /\ doc.category = "Design"
    /\ doc.frontmatter.status = Some(s_Accepted)
    /\ resolved = Some(s_accepted)

----------------------------------------------------------------------------
\* dm new: cmd_new and find_next_design_id

\* str::to_uppercase
ToUpperChar(c) ==
    IF \E i \in 1..Len(LowerChars) : LowerChars[i] = c
    THEN UpperChars[CHOOSE i \in 1..Len(LowerChars) : LowerChars[i] = c]
    ELSE c

ToUppercase(s) == [i \in 1..Len(s) |-> ToUpperChar(s[i])]

\* char::is_alphanumeric on the characters of the model
IsAlphanumeric(c) ==
    \/ \E i \in 1..Len(LowerChars) : LowerChars[i] = c \/ UpperChars[i] = c
    \/ \E i \in 1..Len(Digits) : Digits[i] = c

\* str::split('-')
RECURSIVE SplitDash(_)
SplitDash(s) ==
    IF StrContains(s, <<"-">>)
    THEN LET i == Unwrap(Find(s, <<"-">>))
         IN <<SubSeq(s, 1, i)>> \o SplitDash(SubSeq(s, i + 2, Len(s)))
    ELSE <<s>>

\* Build slug from title
Slug(title) ==
    LET mapped == [i \in 1..Len(title) |->
                      IF IsAlphanumeric(ToLowerChar(title[i])) THEN ToLowerChar(title[i]) ELSE "-"]
    IN JoinSegs(SelectSeq(SplitDash(mapped), LAMBDA piece : piece # <<>>), <<"-">>)

\* today.format("%Y"); the dates of the model are day numbers.
FormatYear(t) == EmitNumber(t \div 365)

\* format!("{next_id:03}"), for the one-digit ids of the model
Pad3(n) == <<"0", "0">> \o EmitNumber(n)

proposed_dir == <<"p","r","o","p","o","s","e","d">>

DesignText(next_id, title, t, author) ==
    <<"-","-","-",LF,"d","o","c","_","i","d",":"," ">>
      \o EmitNumber(next_id) \o <<LF,"t","i","t","l","e",":"," ","\"">> \o title
      \o <<"\"",LF,"s","t","a","t","u","s",":"," ","p","r","o","p","o","s","e",
      "d",LF,"c","r","e","a","t","e","d",":"," ">>
      \o EmitNumber(t) \o <<LF,"a","u","t","h","o","r",":"," ">> \o author
      \o <<LF,"t","a","g","s",":"," ","[","]",LF,"-","-","-",LF,LF,"#"," ">> \o title
      \o <<LF,LF,"T","O","D","O",":"," ","W","r","i","t","e"," ","c","o","n","t",
      "e","n","t"," ","h","e","r","e",".",LF>>

ResearchText(title, t, author) ==
    <<"-","-","-",LF,"t","i","t","l","e",":"," ","\"">> \o title
      \o <<"\"",LF,"s","t","a","t","u","s",":"," ","d","r","a","f","t",LF,"c","r",
      "e","a","t","e","d",":"," ">>
      \o EmitNumber(t) \o <<LF,"a","u","t","h","o","r",":"," ">> \o author
      \o <<LF,"t","y","p","e",":"," ","r","e","s","e","a","r","c","h",LF,"m","a",
      "y","_","b","e","c","o","m","e","_","d","e","s","i","g","n","_","d",
      "o","c",":"," ","f","a","l","s","e">>
      \o <<LF,"t","a","g","s",":"," ","[","]",LF,"-","-","-",LF,LF,"#"," ">> \o title
      \o <<LF,LF,"T","O","D","O",":"," ","W","r","i","t","e"," ","c","o","n","t",
      "e","n","t"," ","h","e","r","e",".",LF>>

ActiveText(title, t, author) ==
    <<"-","-","-",LF,"t","i","t","l","e",":"," ","\"">> \o title
      \o <<"\"",LF,"v","e","r","s","i","o","n",":"," ","1",".","0",LF,"s","t","a",
      "t","u","s",":"," ","a","c","t","i","v","e",LF,"c","r","e","a","t","e",
      "d",":"," ">>
      \o EmitNumber(t) \o <<LF,"l","a","s","t","_","u","p","d","a","t","e","d",":"," ">> \o EmitNumber(t)
      \o <<LF,"a","u","t","h","o","r",":"," ">> \o author
      \o <<LF,"t","a","g","s",":"," ","[","]",LF,"-","-","-",LF,LF,"#"," ">> \o title
      \o <<LF,LF,"T","O","D","O",":"," ","W","r","i","t","e"," ","c","o","n","t",
      "e","n","t"," ","h","e","r","e",".",LF>>

\* The files the two glob patterns of find_next_design_id yield: the *.md
\* files below the root with a directory named design on their way.
DesignGlob(r, fs) ==
    SortPaths({f \in DOMAIN fs :
        /\ StartsWith(f, r \o SLASH)
        /\ EndsWith(f, md_ext)
        /\ LET c == Components(StripRoot(f, r))
           IN \E i \in 1..(Len(c) - 1) : c[i] = design})

\* The loops of find_next_design_id: the values max_id can end with (a set,
\* as parse_document's result is one).  The ids of the model stay far below
\* the width of u32.
RECURSIVE MaxDocId(_, _, _)
MaxDocId(paths, fs, max_id) ==
    IF paths = <<>> THEN {max_id}
    ELSE UNION {
        MaxDocId(Tail(paths), fs,
                 IF r.ok /\ IsSome(r.value.frontmatter.doc_id)
                         /\ Unwrap(r.value.frontmatter.doc_id) > max_id
                 THEN Unwrap(r.value.frontmatter.doc_id) ELSE max_id)
        : r \in parse_document(Head(paths), fs) }

find_next_design_id(docs_root, fs) ==
    {m + 1 : m \in MaxDocId(DesignGlob(docs_root, fs), fs, 0)}

\* The (dir, filename, frontmatter) cmd_new can arrive at.
NewFile(docs_root, fs, category, title, t, author) ==
    LET cat == ToLowercase(category)
        slug == Slug(title)
    IN IF cat = design
       THEN {[dir |-> PathJoin(docs_root, design \o SLASH \o FormatYear(t) \o SLASH \o proposed_dir),
              filename |-> Pad3(next_id) \o <<"-">> \o slug \o md_ext,
              frontmatter |-> DesignText(next_id, title, t, author)] :
                next_id \in find_next_design_id(docs_root, fs)}
       ELSE IF cat = research
       THEN {[dir |-> PathJoin(docs_root, research \o SLASH \o FormatYear(t)),
              filename |-> slug \o md_ext,
              frontmatter |-> ResearchText(title, t, author)]}
       ELSE {[dir |-> PathJoin(docs_root, active),
              filename |-> ToUppercase(slug) \o md_ext,
              frontmatter |-> ActiveText(title, t, author)]}

MaxNew == 3

T_doc_id_2 == <<"-","-","-",LF,"d","o","c","_","i","d",":"," ","2",LF,"-","-","-",LF>>
NewFilesPool ==
    {<<>>} \cup {[p \in {PathJoin(SrvRoot, JoinSegs(<<design, d_md>>, SLASH))} |-> t] :
                    t \in {T_doc_id_2, T_bare}}

NewTitles == {<<"a">>, <<"A", " ", "b">>, <<"a", DQUOTE, "b">>}
NewCategories == {design, research, active}
NewAuthor == <<"a">>

InitNew ==
    /\ root = SrvRoot
    /\ files \in NewFilesPool
    /\ disk = DOMAIN files
    /\ today = 0
    /\ pc = "init"
    /\ tree = DefaultTree
    /\ issues = <<>>
    /\ doc = DefaultDoc
    /\ rel = <<>>
    /\ catAbs = None
    /\ catRel = None
    /\ yaml_text = <<>>
    /\ extracted = None
    /\ parsed = None
    /\ resolved = None
    /\ NoReport

\* dm new <category> --title <title> --author <author>; the number of
\* documents created in a behavior is bounded by MaxNew.
CmdNew ==
    /\ Len(stdout) < MaxNew
    /\ \E category \in NewCategories, title \in NewTitles :
         \E f \in NewFile(root, files, category, title, today, NewAuthor) :
            LET file_path == PathJoin(f.dir, f.filename)
            IN \/ \* create_dir_all or write failed
                  /\ exit_code' = Some(1)
                  /\ UNCHANGED <<files, disk, stdout>>
               \/ /\ files' = [p \in DOMAIN files \cup {file_path} |->
                                  IF p = file_path THEN f.frontmatter ELSE files[p]]
                  /\ disk' = DOMAIN files'
                  /\ stdout' = Append(stdout, Msg("Created: {}", <<StripRoot(file_path, root)>>))
                  /\ exit_code' = Some(0)
    /\ pc' = "cmd_new"
    /\ UNCHANGED <<tree, today, issues, doc, root, rel, catAbs, catRel>>
    /\ UNCHANGED <<yaml_text, extracted, parsed, resolved, report, text>>

NextNew == CmdNew

SpecNew == InitNew /\ [][NextNew]_vars

\* The documents `new design` has created, in order: root-relative paths.
CreatedDesign ==
    SelectSeq([i \in 1..Len(stdout) |-> stdout[i].args[1]],
              LAMBDA r : StartsWith(r, design \o SLASH))

\* The doc_id a created design document was given, as its file name shows it.
CreatedId(r) ==
    Unwrap(ParseDate(<<r[Len(design \o SLASH \o FormatYear(today) \o SLASH \o proposed_dir) + 4]>>))

\* The doc_ids written in the design documents below the root other than
\* the one at path p.
OtherDesignIds(p) ==
    {Unwrap(ParseDate(<<files[f][Len(<<"-","-","-",LF,"d","o","c","_","i","d",":"," ">>) + 1]>>)) :
        f \in {g \in DOMAIN files \ {p} :
                  /\ infer_category(g) = "Design"
                  /\ StartsWith(files[g], <<"-","-","-",LF,"d","o","c","_","i","d",":"," ">>)}}

\* C30: next-ID allocation keeps design doc_ids unique: the doc_id `new
\* design` gives is one more than the largest doc_id of the design documents
\* below the docs root (1 when there is none), and no two documents created
\* by a sequence of `new design` commands share a doc_id or a file path.
C30_UniqueIds ==
    /\ \A i, j \in 1..Len(CreatedDesign) :
          i < j => /\ CreatedDesign[i] # CreatedDesign[j]
                   /\ CreatedId(CreatedDesign[i]) # CreatedId(CreatedDesign[j])
    /\ (stdout # <<>> /\ StartsWith(stdout[Len(stdout)].args[1], design \o SLASH)) =>
          LET r == stdout[Len(stdout)].args[1]
              others == OtherDesignIds(PathJoin(root, r))
          IN /\ \A d \in others : d < CreatedId(r)
             /\ others = {} => CreatedId(r) = 1

====
